---- MODULE Spec2Model ----
(***************************************************************************)
(* Watcher service backend: RepoWatcher / WatcherManager                   *)
(* (src/watcher/file_watcher.py) and ChangeProcessor                       *)
(* (src/processor/change_processor.py), wired by handle_file_change        *)
(* (src/api/server.py).                                                    *)
(*                                                                         *)
(* Execution contexts: one dispatch thread per watchdog Observer (slot     *)
(* "cur" of a repository; slot "old" holds the thread of an Observer that  *)
(* stop_watching() gave up joining), and the API thread on which the       *)
(* manager operations and process_unsent_changes / retry_failed_changes    *)
(* run.                                                                    *)
(***************************************************************************)
EXTENDS Integers, Sequences, FiniteSets, TLC

\* ------------------------------------------------------------ bounds
MaxEvents  == 2      \* filesystem mutations the environment performs
MaxApiOps  == 3      \* manager calls made on the API thread
MaxBatches == 2      \* batch retries run on the API thread
MaxQueue   == 2      \* events waiting in one Observer's queue
MaxLimit   == 2      \* largest `limit` passed to the batch retries
MaxLines   == 3      \* lines of a content handed to the diff engine

\* ------------------------------------------------- strings and paths
\* A string without a newline is the sequence of its characters.  A text (a
\* file content, a diff) is the sequence of the lines str.split('\n') gives,
\* so the empty string is the text of one empty line.  A path is the sequence
\* of its segments (pathlib's parts).
EmptyStr == << <<>> >>

StartsWith(s, pre) == Len(s) >= Len(pre) /\ SubSeq(s, 1, Len(pre)) = pre

\* Python's `sub in s`.
Contains(s, sub) ==
    \E i \in 0..(Len(s) - Len(sub)) : SubSeq(s, i + 1, i + Len(sub)) = sub

RECURSIVE JoinPath(_)
JoinPath(p) ==
    IF Len(p) = 1 THEN p[1] ELSE p[1] \o <<"/">> \o JoinPath(Tail(p))

DigitChars == <<"0", "1", "2", "3", "4", "5", "6", "7", "8", "9">>

RECURSIVE Str(_)
Str(n) == IF n < 10 THEN <<DigitChars[n + 1]>>
          ELSE Str(n \div 10) \o <<DigitChars[(n % 10) + 1]>>

\* ------------------------------------------------- ChangeEventHandler
ignored_patterns ==
    {<<".", "g", "i", "t">>,
     <<"_", "_", "p", "y", "c", "a", "c", "h", "e", "_", "_">>,
     <<"n", "o", "d", "e", "_", "m", "o", "d", "u", "l", "e", "s">>,
     <<".", "v", "s", "c", "o", "d", "e">>,
     <<".", "i", "d", "e", "a">>,
     <<"v", "e", "n", "v">>,
     <<"e", "n", "v">>,
     <<".", "p", "y", "t", "e", "s", "t", "_", "c", "a", "c", "h", "e">>,
     <<"d", "i", "s", "t">>,
     <<"b", "u", "i", "l", "d">>,
     <<".", "D", "S", "_", "S", "t", "o", "r", "e">>,
     <<"T", "h", "u", "m", "b", "s", ".", "d", "b">>}

ignored_extensions ==
    {<<".", "p", "y", "c">>,
     <<".", "p", "y", "o">>,
     <<".", "l", "o", "g">>,
     <<".", "t", "m", "p">>,
     <<".", "t", "e", "m", "p">>,
     <<".", "c", "a", "c", "h", "e">>,
     <<".", "s", "w", "p">>,
     <<".", "s", "w", "o">>,
     <<".", "b", "a", "k">>,
     <<".", "o", "r", "i", "g">>}

CodeSuffixes ==
    {<<".", "p", "y">>,
     <<".", "j", "s">>,
     <<".", "t", "s">>,
     <<".", "j", "s", "x">>,
     <<".", "t", "s", "x">>}

\* pathlib: PurePath.suffix of a file name.
Suffix(name) ==
    LET dots == {i \in 1..Len(name) : name[i] = "."} IN
    IF dots = {} THEN <<>>
    ELSE LET i == CHOOSE d \in dots : \A e \in dots : e <= d IN
         IF i > 1 /\ i < Len(name) THEN SubSeq(name, i, Len(name)) ELSE <<>>

\* The first rule of should_ignore_file: some part of the path contains a
\* block-listed name.
HasIgnoredPart(parts) ==
    \E i \in 1..Len(parts) : \E pattern \in ignored_patterns :
        Contains(parts[i], pattern)

\* ChangeEventHandler.should_ignore_file(file_path), on the parts of the path
\* it is given: a part that contains a block-listed name, a block-listed
\* extension, or a hidden name without a source-code extension.
ShouldIgnoreFile(parts) ==
    \/ HasIgnoredPart(parts)
    \/ Suffix(parts[Len(parts)]) \in ignored_extensions
    \/ /\ StartsWith(parts[Len(parts)], <<".">>)
       /\ Suffix(parts[Len(parts)]) \notin CodeSuffixes

\* ------------------------------------------------- diff engine
S_NoActualChanges  == << <<"N", "o", " ", "a", "c", "t", "u", "a", "l", " ", "c", "h", "a", "n", "g", "e", "s", " ", "d", "e", "t", "e", "c", "t", "e", "d">> >>
S_NoChanges        == << <<"N", "o", " ", "c", "h", "a", "n", "g", "e", "s", " ", "d", "e", "t", "e", "c", "t", "e", "d">> >>
S_FileDeleted      == << <<"F", "i", "l", "e", " ", "d", "e", "l", "e", "t", "e", "d", " ", "(", "n", "o", " ", "p", "r", "e", "v", "i", "o", "u", "s", " ", "s", "n", "a", "p", "s", "h", "o", "t", " ", "a", "v", "a", "i", "l", "a", "b", "l", "e", ")">> >>
S_ErrorReading     == << <<"E", "r", "r", "o", "r", " ", "r", "e", "a", "d", "i", "n", "g", " ", "c", "u", "r", "r", "e", "n", "t", " ", "f", "i", "l", "e", ":", " ">> >>
S_DiffGit          == <<"d", "i", "f", "f", " ", "-", "-", "g", "i", "t", " ">>
S_NewFileMode      == <<"n", "e", "w", " ", "f", "i", "l", "e", " ", "m", "o", "d", "e", " ", "1", "0", "0", "6", "4", "4">>
S_DeletedFileMode  == <<"d", "e", "l", "e", "t", "e", "d", " ", "f", "i", "l", "e", " ", "m", "o", "d", "e", " ", "1", "0", "0", "6", "4", "4">>
S_IndexLine        == <<"i", "n", "d", "e", "x", " ", "0", "0", "0", "0", "0", "0", "0", ".", ".", "1", "1", "1", "1", "1", "1", "1", " ", "1", "0", "0", "6", "4", "4">>

\* `content.split('\n') if content else []` of _create_diff.
SplitLines(content) == IF content = EmptyStr THEN <<>> ELSE content

Prefixed(c, lines) == [i \in 1..Len(lines) |-> <<c>> \o lines[i]]

\* difflib.SequenceMatcher.find_longest_match: the longest block common to a
\* and b; of those the one starting earliest in a, then earliest in b.
\* k = 0 when a and b share no line.
LongestMatch(a, b) ==
    LET M == {m \in (1..Len(a)) \X (1..Len(b)) \X (1..Len(a)) :
                /\ m[1] + m[3] - 1 <= Len(a) /\ m[2] + m[3] - 1 <= Len(b)
                /\ SubSeq(a, m[1], m[1] + m[3] - 1) = SubSeq(b, m[2], m[2] + m[3] - 1)}
        Before(m, n) == \/ m[3] > n[3]
                        \/ m[3] = n[3] /\ m[1] < n[1]
                        \/ m[3] = n[3] /\ m[1] = n[1] /\ m[2] <= n[2]
    IN IF M = {} THEN [i |-> 1, j |-> 1, k |-> 0]
       ELSE LET m == CHOOSE m \in M : \A n \in M : Before(m, n)
            IN [i |-> m[1], j |-> m[2], k |-> m[3]]

\* The lines of difflib's opcodes for a -> b (get_matching_blocks recurses to
\* the left and to the right of the longest match): ' ' for equal lines, and
\* for a stretch without a match the lines of a with '-', then those of b
\* with '+'.
RECURSIVE DiffBody(_, _)
DiffBody(a, b) ==
    LET m == LongestMatch(a, b) IN
    IF m.k = 0 THEN Prefixed("-", a) \o Prefixed("+", b)
    ELSE DiffBody(SubSeq(a, 1, m.i - 1), SubSeq(b, 1, m.j - 1))
         \o Prefixed(" ", SubSeq(a, m.i, m.i + m.k - 1))
         \o DiffBody(SubSeq(a, m.i + m.k, Len(a)), SubSeq(b, m.j + m.k, Len(b)))

\* difflib._format_range_unified(0, n)
FormatRange(n) ==
    IF n = 1 THEN <<"1">>
    ELSE IF n = 0 THEN <<"0", ",", "0">>
    ELSE <<"1", ",">> \o Str(n)

\* difflib.unified_diff(a, b, fromfile, tofile, lineterm='') with its 3 lines
\* of context, for inputs of at most 4 lines each: no run of equal lines is
\* longer than the context, so the one hunk spans both inputs.
IsChange(line) == ~StartsWith(line, <<" ">>)

UnifiedDiffNoContext(a, b, fromfile, tofile) ==
    IF a = b THEN <<>>
    ELSE << <<"-", "-", "-", " ">> \o fromfile,
            <<"+", "+", "+", " ">> \o tofile,
            <<"@", "@", " ", "-">> \o FormatRange(Len(a)) \o <<" ", "+">>
                \o FormatRange(Len(b)) \o <<" ", "@", "@">> >>
         \o SelectSeq(DiffBody(a, b), IsChange)

UnifiedDiff(a, b, fromfile, tofile) ==
    IF a = b THEN <<>>
    ELSE << <<"-", "-", "-", " ">> \o fromfile,
            <<"+", "+", "+", " ">> \o tofile,
            <<"@", "@", " ", "-">> \o FormatRange(Len(a)) \o <<" ", "+">>
                \o FormatRange(Len(b)) \o <<" ", "@", "@">> >>
         \o DiffBody(a, b)

\* RepoWatcher._create_diff(relative_path, old_content, new_content)
CreateDiff(p, old_content, new_content) ==
    LET rel        == JoinPath(p)
        diff_lines == UnifiedDiff(SplitLines(old_content), SplitLines(new_content),
                                  <<"a", "/">> \o rel, <<"b", "/">> \o rel)
    IN IF diff_lines = <<>> THEN S_NoChanges
       ELSE << S_DiffGit \o <<"a", "/">> \o rel \o <<" ", "b", "/">> \o rel,
               IF old_content = EmptyStr THEN S_NewFileMode
               ELSE IF new_content = EmptyStr THEN S_DeletedFileMode
               ELSE S_IndexLine >>
            \o diff_lines

\* RepoWatcher._parse_diff_stats(diff)
CountLinesAndHeaders(diff, c) ==
    Cardinality({i \in 1..Len(diff) : StartsWith(diff[i], <<c>>)})

CountLines(diff, c) ==
    Cardinality({i \in 1..Len(diff) :
                    /\ StartsWith(diff[i], <<c>>)
                    /\ ~StartsWith(diff[i], <<c, c, c>>)})

ParseDiffStats(diff) ==
    [lines_added |-> CountLines(diff, "+"), lines_removed |-> CountLines(diff, "-")]

\* ------------------------------------------------- formatted changes
\* The texts of _format_diff_simple and _process_chunk.  Pin stands for the
\* one character U+1F4CD that opens a hunk line.
Pin == "^"

S_DiffGitPrefix    == <<"d", "i", "f", "f", " ", "-", "-", "g", "i", "t">>
S_Index            == <<"i", "n", "d", "e", "x">>
S_NewFile          == <<"n", "e", "w", " ", "f", "i", "l", "e">>
S_DeletedFile      == <<"d", "e", "l", "e", "t", "e", "d", " ", "f", "i", "l", "e">>
S_FileDeletedStart == <<"F", "i", "l", "e", " ", "d", "e", "l", "e", "t", "e", "d">>
S_ErrorReadingBare == << <<"E", "r", "r", "o", "r", " ", "r", "e", "a", "d", "i", "n", "g", " ", "c", "u", "r", "r", "e", "n", "t", " ", "f", "i", "l", "e">> >>
S_NoChangesToDisplay == << <<"N", "o", " ", "c", "h", "a", "n", "g", "e", "s", " ", "t", "o", " ", "d", "i", "s", "p", "l", "a", "y">> >>
S_Modified         == <<" ", " ", " ", "M", "O", "D", "I", "F", "I", "E", "D", ":">>
S_Removed          == <<" ", " ", " ", "R", "E", "M", "O", "V", "E", "D", ":">>
S_Added            == <<" ", " ", " ", "A", "D", "D", "E", "D", ":">>
S_Deleted          == <<" ", " ", " ", "D", "E", "L", "E", "T", "E", "D", ":">>
S_Indent           == <<" ", " ", " ">>

\* The lines of a chunk that start with c, without that first character.
Unmarked(chunk_lines, c) ==
    LET Is(line) == StartsWith(line, <<c>>)
        kept == SelectSeq(chunk_lines, Is)
    IN [i \in 1..Len(kept) |-> Tail(kept[i])]

\* f"   - {line}" / f"   + {line}" for every line
Bulleted(c, lines) == [i \in 1..Len(lines) |-> S_Indent \o <<c, " ">> \o lines[i]]

\* RepoWatcher._process_chunk(chunk_lines): the block of a run of +/- lines.
ProcessChunk(chunk_lines) ==
    IF chunk_lines = <<>> THEN <<>>
    ELSE LET removals  == Unmarked(chunk_lines, "-")
             additions == Unmarked(chunk_lines, "+")
         IN (IF removals # <<>> /\ additions # <<>>
               THEN <<S_Modified, <<>>, S_Removed>> \o Bulleted("-", removals)
                    \o << <<>>, S_Added>> \o Bulleted("+", additions)
             ELSE IF removals # <<>>
               THEN <<S_Deleted>> \o Bulleted("-", removals)
             ELSE IF additions # <<>>
               THEN <<S_Added>> \o Bulleted("+", additions)
             ELSE <<>>)
            \o << <<>> >>

\* The header test of _format_diff_simple's loop.
IsDiffHeader(line) ==
    \/ StartsWith(line, S_DiffGitPrefix) \/ StartsWith(line, S_Index)
    \/ StartsWith(line, <<"-", "-", "-">>) \/ StartsWith(line, <<"+", "+", "+">>)
    \/ StartsWith(line, S_NewFile) \/ StartsWith(line, S_DeletedFile)

\* The loop of _format_diff_simple over the lines that are left, with its
\* locals in_hunk, current_chunk and formatted_lines; a pending chunk is
\* processed at the end.
RECURSIVE FormatLines(_, _, _, _)
FormatLines(lines, in_hunk, current_chunk, formatted_lines) ==
    IF lines = <<>> THEN formatted_lines \o ProcessChunk(current_chunk)
    ELSE LET line == Head(lines)
             rest == Tail(lines)
         IN IF IsDiffHeader(line)
              THEN FormatLines(rest, in_hunk, current_chunk, formatted_lines)
            ELSE IF StartsWith(line, <<"@", "@">>)
              THEN FormatLines(rest, TRUE, <<>>,
                       formatted_lines \o ProcessChunk(current_chunk)
                           \o << <<>>, <<Pin, " ">> \o line >>)
            ELSE IF ~in_hunk
              THEN FormatLines(rest, in_hunk, current_chunk, formatted_lines)
            ELSE IF StartsWith(line, <<"-">>) \/ StartsWith(line, <<"+">>)
              THEN FormatLines(rest, TRUE, Append(current_chunk, line),
                               formatted_lines)
            ELSE LET context_line ==
                         IF StartsWith(line, <<" ">>) THEN Tail(line) ELSE line
                 IN FormatLines(rest, TRUE, <<>>,
                        formatted_lines \o ProcessChunk(current_chunk)
                            \o <<S_Indent \o context_line>>)

\* RepoWatcher._format_diff_simple(diff)
FormatDiffSimple(diff) ==
    IF \/ diff \in {EmptyStr, S_NoChanges, S_NoActualChanges, S_ErrorReadingBare}
       \/ StartsWith(diff[1], S_FileDeletedStart)
      THEN diff
    ELSE LET formatted_lines == FormatLines(diff, FALSE, <<>>, <<>>)
         IN IF formatted_lines = <<>> THEN S_NoChangesToDisplay
            ELSE formatted_lines

\* GitPython's repo.git.show("HEAD:<path>"): the committed content, without
\* its final newline.
StripNewline(c) ==
    IF Len(c) > 1 /\ c[Len(c)] = <<>> THEN SubSeq(c, 1, Len(c) - 1) ELSE c

GitShowHead(headTree, p) == StripNewline(headTree[p])

\* ------------------------------------------------- payload contents
S_empty == << <<"e", "m", "p", "t", "y">> >>

OrEmptyNever(content) == content

OrEmpty(content) == IF content = EmptyStr THEN S_empty ELSE content

\* ChangeProcessor._read_current_file: "" when the file cannot be read.
ReadCurrentFile(tree, p) == IF p \in DOMAIN tree THEN tree[p] ELSE EmptyStr

\* ChangeProcessor._extract_content_from_diff(git_diff)
RECURSIVE ContentLines(_)
ContentLines(lines) ==
    IF lines = <<>> THEN <<>>
    ELSE LET line == Head(lines)
             rest == ContentLines(Tail(lines))
         IN IF StartsWith(line, <<"-">>) /\ ~StartsWith(line, <<"-", "-", "-">>)
              THEN <<Tail(line)>> \o rest
            ELSE IF /\ ~StartsWith(line, <<"+">>)
                    /\ ~StartsWith(line, <<"@", "@">>)
                    /\ ~StartsWith(line, <<"d", "i", "f", "f">>)
              THEN <<line>> \o rest
            ELSE rest

ExtractContentFromDiff(git_diff) ==
    IF git_diff = EmptyStr THEN EmptyStr
    ELSE LET content_lines == ContentLines(git_diff) IN
         IF content_lines = <<>> THEN EmptyStr ELSE content_lines

\* ChangeProcessor._get_previous_version: HEAD's content, else what the
\* stored diff gives.
GetPreviousVersion(row, headTree) ==
    IF row.relative_path \in DOMAIN headTree
      THEN GitShowHead(headTree, row.relative_path)
      ELSE ExtractContentFromDiff(row.git_diff)

\* ChangeProcessor._get_file_versions(change)
GetFileVersions(row, tree, headTree) ==
    IF row.change_type = "created"
      THEN [previousV |-> S_empty,
            currentV  |-> OrEmpty(ReadCurrentFile(tree, row.relative_path))]
    ELSE IF row.change_type = "deleted"
      THEN [previousV |-> OrEmpty(ExtractContentFromDiff(row.git_diff)),
            currentV  |-> S_empty]
    ELSE [previousV |-> OrEmpty(GetPreviousVersion(row, headTree)),
          currentV  |-> OrEmpty(ReadCurrentFile(tree, row.relative_path))]

\* ------------------------------------------------------------ inputs
Repos      == {"r1", "r2"}
\* RepoWatcher.repo_path, as pathlib's parts.
RepoPath(r) == IF r = "r1" THEN << <<"/">>, <<"r", "1">> >>
               ELSE << <<"/">>, <<"r", "2">> >>
APy        == << <<"a", ".", "p", "y">> >>
Paths      == {APy}
TextX      == << <<"x">> >>
Contents   == {EmptyStr, TextX}
Slots      == {"cur", "old"}
Threads    == Repos \X Slots
API        == <<"api", "main">>
Ctx        == Threads \cup {API}

\* HTTP answers of the AI backend; 0 stands for a requests exception
\* (timeout, connection error), which carries no status code.
Responses  == {200, 201, 400, 404, 500, 0}

\* ------------------------------------------------- program constants
max_retries == 3

VARIABLES
    watchers,        \* WatcherManager.watchers: registered repository ids
    usedIds,         \* repository ids already issued (uuid4, never reused)
    is_running,      \* RepoWatcher.is_running
    observer,        \* RepoWatcher.observer: "none" | "created" | "started"
    file_snapshots,  \* RepoWatcher.file_snapshots: path -> content
    disk,            \* the working tree: path -> content
    queue,           \* event queue of the repository's current Observer
    ctx,             \* per execution context: position and locals
    stopping,        \* API thread inside stop_watching(): "no"|"stop"|"remove"
    changes,         \* file_changes table, in insertion (timestamp) order
    lastCall,        \* the last call finished on the API thread and its result
    nEvents,         \* filesystem mutations so far
    nApi,            \* API-thread calls so far
    rejected,        \* history: rows whose delivery a terminal reject ended
    reposted,        \* history: rows POSTed again after such a reject
    late,            \* history: work done for a watcher after its teardown began
    head,            \* the tree of the repository's HEAD commit: path -> content
    bulk,            \* WatcherManager.stop_all in progress: ids left, results
    dropped,         \* history: events the handler did not hand on
    mgr_callbacks,   \* WatcherManager.change_callbacks, in registration order
    change_callbacks,\* RepoWatcher.change_callbacks, in registration order
    users,           \* users table (committed rows): id, email
    user_seq,        \* users.id AUTO_INCREMENT: the last value handed out
    total_changes,   \* repositories.total_changes (committed)
    websocket_connections,  \* server.websocket_connections
    lastCast,        \* the last broadcast_change call and what it did
    invoked,         \* history: callback invocations and their outcome, per watcher
    handled          \* history: events handed to _on_file_change, per watcher

obsVars  == <<mgr_callbacks, change_callbacks>>
dbVars   == <<users, user_seq, total_changes>>
castVars == <<websocket_connections, lastCast>>
extVars  == <<obsVars, dbVars, castVars, invoked, handled>>

vars == <<watchers, usedIds, is_running, observer, file_snapshots, disk, queue,
          ctx, stopping, changes, lastCall, nEvents, nApi, rejected, reposted, late,
          head, bulk, dropped, extVars>>

watchVars == <<watchers, usedIds, is_running, observer, file_snapshots>>
histVars  == <<rejected, reposted, late>>
auxVars   == <<head, bulk, dropped>>

\* ------------------------------------------------------------ helpers
EmptyMap == [p \in {} |-> <<>>]

\* op: the call; repo: its repository; ret: the value returned; early: the
\* call took its early return (nothing to do); results: the per-id map that
\* start_all / stop_all return.
NoResults == [r \in {} |-> FALSE]
NoCall == [op |-> "none", repo |-> "", ret |-> FALSE, early |-> FALSE,
           results |-> NoResults]
Call(op, r, ret, early) ==
    [op |-> op, repo |-> r, ret |-> ret, early |-> early, results |-> NoResults]

NoBulk == [op |-> "none", left |-> {}, results |-> NoResults]

\* The locals of an execution context.  read_error: the read of the current
\* file raised; prev, cur: the contents _get_proper_diff compared; git_diff,
\* lines_added, lines_removed: the record's fields; payload: previousV and
\* currentV of the payload prepared for the POST.  rec: the number of the
\* event among those its watcher handed to _on_file_change; change_data: the
\* dict _extract_git_info returned; cbi: the position of the running callback
\* in the watcher's list; user_id, new_user, seen_total: what the database
\* session of _save_change_to_db read or flushed before its commit; op, sent:
\* the batch call running on the API thread and the results it has so far;
\* result: the dict the batch call returned to its endpoint.
NoPayload == [previousV |-> <<>>, currentV |-> <<>>]

IdleCtx == [pc |-> "idle", path |-> <<>>, kind |-> "", stopped |-> FALSE,
            cid |-> 0, attempt |-> 0, resps |-> <<>>, waits |-> <<>>,
            sentAtBegin |-> FALSE, ok |-> FALSE, todo |-> <<>>, batch |-> <<>>,
            read_error |-> FALSE, prev |-> <<>>, cur |-> <<>>, git_diff |-> <<>>,
            lines_added |-> 0, lines_removed |-> 0, payload |-> NoPayload,
            rec |-> 0, change_data |-> <<>>, cbi |-> 0, user_id |-> 0,
            new_user |-> FALSE, seen_total |-> 0, op |-> "", sent |-> <<>>,
            result |-> <<>>]

\* The rest of the service as lifespan() leaves it: handle_file_change is the
\* one callback registered with the manager (before any repository is added),
\* nothing was persisted, nobody is connected.
NoCast  == [before |-> {}, failing |-> {}, sent |-> {}, raised |-> FALSE]

ServiceStarted ==
    /\ mgr_callbacks = <<"handle_file_change">>
    /\ change_callbacks =
          [r \in Repos |-> IF r \in watchers THEN <<"handle_file_change">> ELSE <<>>]
    /\ users = {}
    /\ user_seq = 0
    /\ total_changes = [r \in Repos |-> 0]
    /\ websocket_connections = {}
    /\ lastCast = NoCast
    /\ invoked = [r \in Repos |-> <<>>]
    /\ handled = [r \in Repos |-> 0]

RECURSIVE Pow2(_)
Pow2(n) == IF n = 0 THEN 1 ELSE 2 * Pow2(n - 1)

ApiIdle == /\ ctx[API].pc = "idle"
           /\ \A r \in Repos : stopping[r] = "no"
           /\ bulk.op = "none"

\* Overwrite / remove one entry of a path -> content map.
Put(m, p, c) == [q \in DOMAIN m \cup {p} |-> IF q = p THEN c ELSE m[q]]
Drop(m, p)   == [q \in DOMAIN m \ {p} |-> m[q]]

Init ==
    /\ watchers = {}
    /\ usedIds = {}
    /\ is_running = [r \in Repos |-> FALSE]
    /\ observer = [r \in Repos |-> "none"]
    /\ file_snapshots = [r \in Repos |-> EmptyMap]
    /\ disk = [r \in Repos |-> EmptyMap]
    /\ queue = [r \in Repos |-> <<>>]
    /\ ctx = [c \in Ctx |-> IdleCtx]
    /\ stopping = [r \in Repos |-> "no"]
    /\ changes = <<>>
    /\ lastCall = NoCall
    /\ nEvents = 0
    /\ nApi = 0
    /\ rejected = {}
    /\ reposted = {}
    /\ late = {}
    /\ head = [r \in Repos |-> EmptyMap]
    /\ bulk = NoBulk
    /\ dropped = {}
    /\ ServiceStarted

\* ------------------------------------------------- WatcherManager / API
\* RepoWatcher.initialize_snapshots: every file of the tree that
\* should_ignore_file lets through is read into the snapshot (the walk skips
\* .git directories, which the predicate rejects as well); entries of paths no
\* longer in the tree are left as they are.
Seeded(r, tree) == {q \in DOMAIN tree : ~ShouldIgnoreFile(RepoPath(r) \o q)}

InitializeSnapshots(r, snap, tree) ==
    [q \in DOMAIN snap \cup Seeded(r, tree) |->
        IF q \in Seeded(r, tree) THEN tree[q] ELSE snap[q]]

\* RepoWatcher.__init__ raising on a path that is missing or is not a git
\* repository: nothing is constructed.
RepoWatcherRaisesNever(valid) == FALSE

RepoWatcherRaises(valid) == ~valid

\* add_repository's loop over self.change_callbacks: the callbacks the new
\* watcher is given.
GlobalCallbacksNone(global_callbacks) == <<>>

GlobalCallbacks(global_callbacks) == global_callbacks

\* WatcherManager.add_repository under a fresh id.  With a usable git tree a
\* fresh RepoWatcher (not running, no observer, empty snapshot) is stored;
\* with an invalid path the constructor raises, nothing is stored and False
\* is returned.
AddRepository(r, valid) ==
    /\ ApiIdle /\ nApi < MaxApiOps
    /\ r \notin usedIds
    /\ watchers' = IF RepoWatcherRaises(valid) THEN watchers ELSE watchers \cup {r}
    /\ change_callbacks' =
          IF RepoWatcherRaises(valid) THEN change_callbacks
          ELSE [change_callbacks EXCEPT ![r] = GlobalCallbacks(mgr_callbacks)]
    /\ usedIds' = usedIds \cup {r}
    /\ lastCall' = Call("add", r, ~RepoWatcherRaises(valid), FALSE)
    /\ nApi' = nApi + 1
    /\ UNCHANGED <<is_running, observer, file_snapshots, disk, queue, ctx,
                   stopping, changes, nEvents, rejected, reposted, late, auxVars,
                   mgr_callbacks, dbVars, castVars, invoked, handled>>

\* WatcherManager.add_change_callback(callback): the callback joins the
\* manager's list and the list of every watcher registered now.
AddChangeCallback(callback) ==
    /\ ApiIdle /\ nApi < MaxApiOps
    /\ nApi' = nApi + 1
    /\ mgr_callbacks' = Append(mgr_callbacks, callback)
    /\ change_callbacks' =
          [r \in Repos |-> IF r \in watchers THEN Append(change_callbacks[r], callback)
                           ELSE change_callbacks[r]]
    /\ UNCHANGED <<watchVars, disk, queue, ctx, stopping, changes, lastCall,
                   nEvents, histVars, auxVars, dbVars, castVars, invoked, handled>>

\* RepoWatcher.start_watching when the watcher is not running: seed the
\* snapshot, create the Observer and start it; a failure of schedule()/start()
\* leaves the watcher not running and reports False.
StartFresh(r, started) ==
    /\ file_snapshots' = [file_snapshots EXCEPT
                              ![r] = InitializeSnapshots(r, file_snapshots[r], disk[r])]
    /\ observer' = [observer EXCEPT ![r] = IF started THEN "started" ELSE "created"]
    /\ is_running' = [is_running EXCEPT ![r] = started]
    /\ queue' = [queue EXCEPT ![r] = <<>>]
    /\ lastCall' = Call("start", r, started, FALSE)

\* start_watching without its is_running guard.
StartAgain(r) == StartFresh(r, TRUE)

\* RepoWatcher.start_watching on a running watcher: the early return.
StartAlreadyRunning(r) ==
    /\ lastCall' = Call("start", r, TRUE, TRUE)
    /\ UNCHANGED <<is_running, observer, file_snapshots, queue>>

\* WatcherManager.start_watching -> RepoWatcher.start_watching
StartWatching(r) ==
    /\ ApiIdle /\ nApi < MaxApiOps
    /\ nApi' = nApi + 1
    /\ IF r \notin watchers
         THEN /\ lastCall' = Call("start", r, FALSE, TRUE)
              /\ UNCHANGED <<is_running, observer, file_snapshots, queue>>
         ELSE IF is_running[r]
           THEN StartAlreadyRunning(r)
           ELSE \E started \in BOOLEAN : StartFresh(r, started)
    /\ UNCHANGED <<watchers, usedIds, disk, ctx, stopping, changes, nEvents,
                   histVars, auxVars, extVars>>

\* RepoWatcher.stop_watching up to observer.join(): observer.stop() tells the
\* dispatch thread to exit once its current dispatch is over.
StopObserver(r, why) ==
    /\ ctx' = [ctx EXCEPT ![<<r, "cur">>].stopped = TRUE]
    /\ stopping' = [stopping EXCEPT ![r] = why]
    /\ UNCHANGED <<watchers, is_running, observer, file_snapshots, queue, lastCall>>

\* RepoWatcher.stop_watching on a watcher that is not running: the early return.
StopNotRunning(r, op) ==
    /\ lastCall' = Call(op, r, TRUE, TRUE)
    /\ UNCHANGED <<is_running, observer, file_snapshots, queue, ctx, stopping>>

\* WatcherManager.stop_watching -> RepoWatcher.stop_watching
StopWatching(r) ==
    /\ ApiIdle /\ nApi < MaxApiOps
    /\ nApi' = nApi + 1
    /\ IF r \notin watchers
         THEN /\ lastCall' = Call("stop", r, FALSE, TRUE)
              /\ UNCHANGED <<watchers, is_running, observer, file_snapshots,
                             queue, ctx, stopping>>
         ELSE IF ~is_running[r]
           THEN StopNotRunning(r, "stop") /\ UNCHANGED watchers
           ELSE StopObserver(r, "stop")
    /\ UNCHANGED <<usedIds, disk, changes, nEvents, histVars, auxVars, extVars>>

\* WatcherManager.remove_repository: stop the watcher, then drop it.
RemoveRepository(r) ==
    /\ ApiIdle /\ nApi < MaxApiOps
    /\ nApi' = nApi + 1
    /\ IF r \notin watchers
         THEN /\ lastCall' = Call("remove", r, TRUE, TRUE)
              /\ UNCHANGED <<watchers, is_running, observer, file_snapshots,
                             queue, ctx, stopping>>
         ELSE IF ~is_running[r]
           THEN /\ watchers' = watchers \ {r}
                /\ StopNotRunning(r, "remove")
           ELSE StopObserver(r, "remove")
    /\ UNCHANGED <<usedIds, disk, changes, nEvents, histVars, auxVars, extVars>>

\* The rest of RepoWatcher.stop_watching, once observer.join(timeout=5) is
\* over: the thread has ended (it is idle) or the wait timed out (it is still
\* inside a dispatch and goes on as a detached thread).  The snapshot is left
\* as it is.  For remove_repository the watcher is then deleted.
StopJoined(r) ==
    /\ stopping[r] # "no"
    /\ ctx[<<r, "cur">>].pc # "idle" => ctx[<<r, "old">>].pc = "idle"
    /\ ctx' = IF ctx[<<r, "cur">>].pc = "idle"
                THEN [ctx EXCEPT ![<<r, "cur">>] = IdleCtx]
                ELSE [ctx EXCEPT ![<<r, "old">>] = ctx[<<r, "cur">>],
                                 ![<<r, "cur">>] = IdleCtx]
    /\ observer' = [observer EXCEPT ![r] = "none"]
    /\ is_running' = [is_running EXCEPT ![r] = FALSE]
    /\ queue' = [queue EXCEPT ![r] = <<>>]
    /\ watchers' = IF stopping[r] = "remove" THEN watchers \ {r} ELSE watchers
    /\ stopping' = [stopping EXCEPT ![r] = "no"]
    /\ IF stopping[r] = "stop_all"
         THEN /\ bulk' = [bulk EXCEPT !.left = @ \ {r}, !.results = Put(@, r, TRUE)]
              /\ UNCHANGED lastCall
         ELSE /\ lastCall' = Call(stopping[r], r, TRUE, FALSE)
              /\ UNCHANGED bulk
    /\ UNCHANGED <<usedIds, file_snapshots, disk, changes, nEvents, nApi,
                   histVars, head, dropped, extVars>>

\* The ids start_all and stop_all loop over: the keys of self.watchers.
EveryIssuedId == usedIds

LoopIds == watchers

\* WatcherManager.start_all: start_watching for every registered id in turn;
\* started[r] is what schedule()/start() of r's Observer comes to.  The result
\* maps each id to what its start_watching returned.
StartAll(started) ==
    /\ ApiIdle /\ nApi < MaxApiOps
    /\ nApi' = nApi + 1
    /\ DOMAIN started = LoopIds
    /\ \A r \in watchers : is_running[r] => started[r]
    /\ LET fresh == {r \in watchers : ~is_running[r]} IN
       /\ file_snapshots' = [r \in Repos |->
              IF r \in fresh
                THEN InitializeSnapshots(r, file_snapshots[r], disk[r])
                ELSE file_snapshots[r]]
       /\ observer' = [r \in Repos |->
              IF r \in fresh THEN (IF started[r] THEN "started" ELSE "created")
              ELSE observer[r]]
       /\ is_running' = [r \in Repos |->
              IF r \in fresh THEN started[r] ELSE is_running[r]]
       /\ queue' = [r \in Repos |-> IF r \in fresh THEN <<>> ELSE queue[r]]
    /\ lastCall' = [Call("start_all", "", TRUE, FALSE) EXCEPT
                       !.results = started]
    /\ UNCHANGED <<watchers, usedIds, disk, ctx, stopping, changes, nEvents,
                   histVars, auxVars, extVars>>

\* WatcherManager.stop_all: stop_watching for every registered id in turn.
\* The call begins with an empty result map.
StopAll ==
    /\ ApiIdle /\ nApi < MaxApiOps
    /\ nApi' = nApi + 1
    /\ bulk' = [op |-> "stop_all", left |-> LoopIds, results |-> NoResults]
    /\ UNCHANGED <<watchVars, disk, queue, ctx, stopping, changes, lastCall,
                   nEvents, histVars, head, dropped, extVars>>

\* The next id of stop_all's loop.  A watcher that is not running reports
\* True at once; an exception inside RepoWatcher.stop_watching is caught
\* there, False is reported and the watcher is left as it is; otherwise the
\* Observer is told to stop and the loop waits in join().
StopReturnsEarlyTrue(running, raises) == TRUE

\* What RepoWatcher.stop_watching returns when it does not reach join().
StopReturnsEarly(running, raises) == ~running

StopAllNext(r, raises) ==
    /\ bulk.op = "stop_all" /\ r \in bulk.left
    /\ \A q \in Repos : stopping[q] = "no"
    /\ IF ~is_running[r] \/ raises
         THEN /\ bulk' = [bulk EXCEPT !.left = @ \ {r},
                                      !.results =
                                          Put(@, r, StopReturnsEarly(is_running[r], raises))]
              /\ UNCHANGED <<watchers, is_running, observer, file_snapshots,
                             queue, ctx, stopping, lastCall>>
         ELSE /\ StopObserver(r, "stop_all")
              /\ UNCHANGED bulk
    /\ UNCHANGED <<usedIds, disk, changes, nEvents, nApi, histVars, head, dropped,
                   extVars>>

\* stop_all returns its result map.
StopAllReturn ==
    /\ bulk.op = "stop_all" /\ bulk.left = {}
    /\ \A q \in Repos : stopping[q] = "no"
    /\ lastCall' = [Call("stop_all", "", TRUE, FALSE) EXCEPT
                       !.results = bulk.results]
    /\ bulk' = NoBulk
    /\ UNCHANGED <<watchVars, disk, queue, ctx, stopping, changes, nEvents, nApi,
                   histVars, head, dropped, extVars>>

\* ------------------------------------------------- filesystem notifier
\* The environment writes (content c) or deletes a file of the tree; a started
\* Observer that was not told to stop queues the matching raw event.
EventKind(r, p, deleted) ==
    IF deleted THEN "deleted"
    ELSE IF p \in DOMAIN disk[r] THEN "modified" ELSE "created"

NotifyEvent(r, event) ==
    IF observer[r] = "started" /\ ~ctx[<<r, "cur">>].stopped
      THEN /\ Len(queue[r]) < MaxQueue
           /\ queue' = [queue EXCEPT ![r] = Append(@, event)]
      ELSE UNCHANGED queue

Notify(r, p, kind) ==
    NotifyEvent(r, [path |-> p, kind |-> kind, is_directory |-> FALSE])

FsWrite(r, p, c) ==
    /\ nEvents < MaxEvents
    /\ nEvents' = nEvents + 1
    /\ disk' = [disk EXCEPT ![r] = Put(@, p, c)]
    /\ Notify(r, p, EventKind(r, p, FALSE))
    /\ UNCHANGED <<watchVars, ctx, stopping, changes, lastCall, nApi, histVars,
                   auxVars, extVars>>

FsDelete(r, p) ==
    /\ nEvents < MaxEvents
    /\ p \in DOMAIN disk[r]
    /\ nEvents' = nEvents + 1
    /\ disk' = [disk EXCEPT ![r] = Drop(@, p)]
    /\ Notify(r, p, "deleted")
    /\ UNCHANGED <<watchVars, ctx, stopping, changes, lastCall, nApi, histVars,
                   auxVars, extVars>>

\* The environment creates, changes or removes a directory: the raw event
\* carries is_directory.
FsDirectory(r, p, kind) ==
    /\ nEvents < MaxEvents
    /\ nEvents' = nEvents + 1
    /\ NotifyEvent(r, [path |-> p, kind |-> kind, is_directory |-> TRUE])
    /\ UNCHANGED <<watchVars, disk, ctx, stopping, changes, lastCall, nApi,
                   histVars, auxVars, extVars>>

\* ------------------------------------------------- watcher event path
\* ChangeEventHandler.on_modified / on_created / on_deleted: an event is
\* handed on unless it is a directory event or should_ignore_file rejects its
\* src_path (the absolute path).
HandsOnAlways(r, event) == TRUE

HandsOn(r, event) ==
    ~event.is_directory /\ ~ShouldIgnoreFile(RepoPath(r) \o event.path)

\* The Observer's dispatch loop takes the next queued event (only while it was
\* not told to stop) and ChangeEventHandler.on_* hands it to _on_file_change
\* or drops it.
Dispatch(r) ==
    /\ observer[r] = "started"
    /\ ctx[<<r, "cur">>].pc = "idle" /\ ~ctx[<<r, "cur">>].stopped
    /\ queue[r] # <<>>
    /\ queue' = [queue EXCEPT ![r] = Tail(@)]
    /\ ctx' = IF HandsOn(r, Head(queue[r]))
                THEN [ctx EXCEPT ![<<r, "cur">>] =
                        [IdleCtx EXCEPT !.pc = "extract",
                                        !.rec = handled[r] + 1,
                                        !.path = Head(queue[r]).path,
                                        !.kind = Head(queue[r]).kind]]
                ELSE ctx
    /\ handled' = IF HandsOn(r, Head(queue[r]))
                    THEN [handled EXCEPT ![r] = @ + 1] ELSE handled
    /\ dropped' = IF HandsOn(r, Head(queue[r])) THEN dropped
                  ELSE dropped \cup {[repo |-> r, event |-> Head(queue[r])]}
    /\ UNCHANGED <<watchVars, disk, stopping, changes, lastCall, nEvents, nApi,
                   histVars, head, bulk, obsVars, dbVars, castVars, invoked>>

\* RepoWatcher._get_proper_diff, the snapshot side: a deletion (or a file that
\* is gone) removes the entry, anything else overwrites it with the content
\* read now.
SnapshotAfterDeletedOnly(snap, tree, p, kind) ==
    IF kind = "deleted" THEN Drop(snap, p)
    ELSE IF p \notin DOMAIN tree THEN snap
    ELSE Put(snap, p, tree[p])

SnapshotAfter(snap, tree, p, kind) ==
    IF kind = "deleted" \/ p \notin DOMAIN tree
      THEN Drop(snap, p)
      ELSE Put(snap, p, tree[p])

\* The end of _get_proper_diff: equal contents give the "no actual changes"
\* text, anything else the diff.
DiffAlways(p, previous_content, current_content) ==
    CreateDiff(p, previous_content, current_content)

DiffUnlessEqual(p, previous_content, current_content) ==
    IF previous_content = current_content THEN S_NoActualChanges
    ELSE CreateDiff(p, previous_content, current_content)

\* RepoWatcher._get_proper_diff(file_path, relative_path, change_type):
\* the snapshot it leaves, the diff text it returns and the contents it
\* compared (<<>> where it compared none).  readable: the read of the current
\* file succeeds; a read that raises returns the error text and leaves the
\* snapshot alone.  A previous content that is empty is looked up in HEAD,
\* unless the file was created.
GetProperDiff(snap, tree, headTree, p, kind, readable) ==
    IF kind = "deleted" \/ p \notin DOMAIN tree
      THEN IF p \in DOMAIN snap
             THEN [snap |-> SnapshotAfter(snap, tree, p, kind), written |-> TRUE,
                   read_error |-> FALSE, prev |-> snap[p], cur |-> EmptyStr,
                   git_diff |-> CreateDiff(p, snap[p], EmptyStr)]
             ELSE [snap |-> snap, written |-> FALSE, read_error |-> FALSE,
                   prev |-> <<>>, cur |-> <<>>, git_diff |-> S_FileDeleted]
    ELSE IF ~readable
      THEN [snap |-> snap, written |-> FALSE, read_error |-> TRUE,
            prev |-> <<>>, cur |-> <<>>, git_diff |-> S_ErrorReading]
    ELSE LET current_content == tree[p]
             stored == IF p \in DOMAIN snap THEN snap[p] ELSE EmptyStr
             previous_content ==
                 IF stored = EmptyStr /\ kind # "created" /\ p \in DOMAIN headTree
                   THEN GitShowHead(headTree, p) ELSE stored
         IN [snap |-> SnapshotAfter(snap, tree, p, kind), written |-> TRUE,
             read_error |-> FALSE, prev |-> previous_content,
             cur |-> current_content,
             git_diff |-> DiffUnlessEqual(p, previous_content, current_content)]

\* What git answers about a path: its latest commit, the configured identity,
\* or an error.
\* Python's None in the commit_hash field, whose values are sequences of
\* characters; NotSet: a name or an option git does not hold.
None == <<>>

NotSet == ""

HexSha == <<"a", "1", "b", "2", "c", "3", "d", "4", "e", "5">>

AliceCommit == [kind |-> "commit", name |-> "alice", email |-> "alice@x",
                hexsha |-> HexSha]
BobConfig   == [kind |-> "config", name |-> "bob", email |-> "bob@x",
                hexsha |-> <<>>]
NameOnlyConfig == [kind |-> "config", name |-> "bob", email |-> NotSet,
                   hexsha |-> <<>>]
ConfigError == [kind |-> "config_error", name |-> NotSet, email |-> NotSet,
                hexsha |-> <<>>]
GitError    == [kind |-> "error", name |-> NotSet, email |-> NotSet, hexsha |-> <<>>]

\* commit.hexsha[:8]
WholeHash(hexsha) == hexsha

ShortHash(hexsha) == SubSeq(hexsha, 1, IF Len(hexsha) < 8 THEN Len(hexsha) ELSE 8)

\* config_reader.get_value(section, option, fallback=default)
GetValue(value, default) == IF value = NotSet THEN default ELSE value

\* RepoWatcher._get_author_info(relative_path).  log: what the repository
\* answers, the latest commit touching the path ("commit"), no such commit
\* and the configured identity ("config"), no such commit and a
\* config_reader that raises ("config_error"), or a failing query ("error").

UnknownAuthor == [name |-> "unknown", email |-> "unknown", commit_hash |-> None]

GetAuthorInfoNoFallback(log) ==
    IF log.kind = "commit"
      THEN [name |-> log.name, email |-> log.email,
            commit_hash |-> ShortHash(log.hexsha)]
    ELSE IF log.kind = "config"
      THEN [name |-> GetValue(log.name, "unknown"),
            email |-> GetValue(log.email, "unknown"), commit_hash |-> None]
    ELSE [name |-> "", email |-> "", commit_hash |-> None]

GetAuthorInfo(log) ==
    IF log.kind = "commit"
      THEN [name |-> log.name, email |-> log.email,
            commit_hash |-> ShortHash(log.hexsha)]
    ELSE IF log.kind = "config"
      THEN [name |-> GetValue(log.name, "unknown"),
            email |-> GetValue(log.email, "unknown"), commit_hash |-> None]
    ELSE UnknownAuthor

\* The dict _extract_git_info returns.
ChangeData(r, p, kind, git_diff, stats, author_info) ==
    [repository_id |-> r, file_path |-> RepoPath(r) \o p, relative_path |-> p,
     change_type |-> kind, timestamp |-> "now",
     file_extension |-> Suffix(p[Len(p)]), git_diff |-> git_diff,
     formatted_changes |-> FormatDiffSimple(git_diff),
     author |-> author_info.name, author_email |-> author_info.email,
     commit_hash |-> author_info.commit_hash,
     lines_added |-> stats.lines_added, lines_removed |-> stats.lines_removed]

\* The loop of _on_file_change over self.change_callbacks (Python iterates
\* the live list): after callback number c.cbi, the next one is called with
\* the same record, or the dispatch of the event is over.
NextCallback(t, c) ==
    IF c.cbi < Len(change_callbacks[t[1]])
      THEN [IdleCtx EXCEPT !.pc = "callback", !.cbi = c.cbi + 1, !.rec = c.rec,
                           !.path = c.path, !.kind = c.kind,
                           !.stopped = c.stopped, !.read_error = c.read_error,
                           !.prev = c.prev, !.cur = c.cur, !.git_diff = c.git_diff,
                           !.lines_added = c.lines_added,
                           !.lines_removed = c.lines_removed,
                           !.change_data = c.change_data]
      ELSE [IdleCtx EXCEPT !.stopped = (t[2] = "cur" /\ c.stopped)]

\* RepoWatcher._on_file_change -> _extract_git_info: the diff, its line
\* counts, the snapshot update and the author; then the first callback.
ExtractGitInfo(t, readable, log) ==
    /\ t \in Threads
    /\ ctx[t].pc = "extract"
    /\ LET d == GetProperDiff(file_snapshots[t[1]], disk[t[1]], head[t[1]],
                              ctx[t].path, ctx[t].kind, readable)
           stats == ParseDiffStats(d.git_diff)
           record == [ctx[t] EXCEPT
                         !.read_error = d.read_error,
                         !.prev = d.prev, !.cur = d.cur,
                         !.git_diff = d.git_diff,
                         !.lines_added = stats.lines_added,
                         !.lines_removed = stats.lines_removed,
                         !.change_data =
                             ChangeData(t[1], ctx[t].path, ctx[t].kind, d.git_diff,
                                        stats, GetAuthorInfo(log))]
       IN /\ file_snapshots' = [file_snapshots EXCEPT ![t[1]] = d.snap]
          /\ ctx' = [ctx EXCEPT ![t] =
                       IF change_callbacks[t[1]] = <<>> THEN NextCallback(t, record)
                       ELSE [record EXCEPT !.pc = "callback", !.cbi = 1]]
          /\ late' = IF ctx[t].stopped /\ d.written
                     THEN late \cup {<<t[1], "snapshot">>} ELSE late
    /\ UNCHANGED <<watchers, usedIds, is_running, observer, disk, queue, stopping,
                   changes, lastCall, nEvents, nApi, rejected, reposted, auxVars,
                   extVars>>

\* ------------------------------------------------- ChangeProcessor
\* ChangeProcessor._validate_change_data(change_data)
required_fields ==
    {"repository_id", "file_path", "relative_path", "change_type", "timestamp",
     "file_extension", "author", "author_email"}

change_types == {"created", "modified", "deleted"}

ValidateFieldsOnly(change_data) == required_fields \subseteq DOMAIN change_data

ValidateChangeData(change_data) ==
    /\ required_fields \subseteq DOMAIN change_data
    /\ change_data.change_type \in change_types

\* dict.get(key, default)
Get(d, key, default) == IF key \in DOMAIN d THEN d[key] ELSE default

\* The FileChange row _save_change_to_db builds (not sent yet).
NewRow(change_data, user_id) ==
    [repository_id |-> change_data.repository_id,
     relative_path |-> change_data.relative_path,
     change_type |-> change_data.change_type,
     git_diff |-> Get(change_data, "git_diff", EmptyStr),
     lines_added |-> Get(change_data, "lines_added", 0),
     lines_removed |-> Get(change_data, "lines_removed", 0),
     user_id |-> user_id, author_email |-> change_data.author_email,
     sent_to_ai |-> FALSE, is_processed |-> FALSE]

QueueForAiProcessing(c, id) == [c EXCEPT !.pc = "send", !.cid = id]

\* The callback the watcher's loop is at.
Callback(t) == change_callbacks[t[1]][ctx[t].cbi]

\* ChangeProcessor._get_or_create_user: the id of the committed row with this
\* email, or 0 when a new row has to be inserted.  The unique index on
\* users.email answers the same question when a flushed row is committed.
ExistingUserNone(rows, author_email) == 0

ExistingUser(rows, author_email) ==
    IF \E u \in rows : u.email = author_email
      THEN (CHOOSE u \in rows : u.email = author_email).id
      ELSE 0

\* handle_file_change -> ChangeProcessor.process_file_change, up to the commit
\* of _save_change_to_db, on the thread the callback runs on.  The record is
\* validated; the session looks the author's email up in users and, if there
\* is no such row, flushes a new one (AUTO_INCREMENT hands out the next id; the
\* row stays uncommitted); it builds the file_changes row and reads the
\* repository's total_changes.  db_ok: the queries and the flush succeed.  A
\* record that is not valid, or a failing session, ends the callback: it
\* returns without a change id, nothing is written, queued or broadcast.
HandleFileChange(t, db_ok) ==
    /\ t \in Threads
    /\ ctx[t].pc = "callback"
    /\ Callback(t) = "handle_file_change"
    /\ invoked' = [invoked EXCEPT ![t[1]] =
                      Append(@, [fn |-> Callback(t), rec |-> ctx[t].rec,
                                 ok |-> TRUE,
                                 out |-> IF ~ValidateChangeData(ctx[t].change_data)
                                           THEN "invalid"
                                         ELSE IF ~db_ok THEN "error" ELSE "saving"])]
    /\ LET change_data == ctx[t].change_data IN
       IF ~ValidateChangeData(change_data) \/ ~db_ok
         THEN /\ ctx' = [ctx EXCEPT ![t] = NextCallback(t, @)]
              /\ UNCHANGED user_seq
         ELSE LET user_id == ExistingUser(users, change_data.author_email) IN
              /\ user_seq' = IF user_id = 0 THEN user_seq + 1 ELSE user_seq
              /\ ctx' = [ctx EXCEPT
                    ![t].pc = "commit",
                    ![t].user_id = IF user_id = 0 THEN user_seq + 1 ELSE user_id,
                    ![t].new_user = (user_id = 0),
                    ![t].seen_total = total_changes[change_data.repository_id]]
    /\ late' = IF ctx[t].stopped THEN late \cup {<<t[1], "observer">>} ELSE late
    /\ UNCHANGED <<watchVars, disk, queue, stopping, changes, lastCall, nEvents,
                   nApi, rejected, reposted, auxVars, obsVars, users,
                   total_changes, castVars, handled>>

\* The value written to repositories.total_changes: the value the session
\* read, plus one.
CounterAfter(seen, current) == seen + 1

\* db.commit() of _save_change_to_db and what follows it.  The commit fails
\* (db_ok false, or the email of the flushed user row was committed by another
\* session in between: the unique index rejects it), the session is rolled
\* back and the callback returns without a change id; or the user row, the
\* change row and the counter become visible together and
\* _queue_for_ai_processing goes on with the delivery.
CommitChange(t, db_ok) ==
    /\ t \in Threads
    /\ ctx[t].pc = "commit"
    /\ LET change_data == ctx[t].change_data
           r == change_data.repository_id
           duplicate == /\ ctx[t].new_user
                        /\ ExistingUser(users, change_data.author_email) # 0
       IN IF ~db_ok \/ duplicate
            THEN /\ ctx' = [ctx EXCEPT ![t] = NextCallback(t, @)]
                 /\ UNCHANGED <<users, changes, total_changes>>
            ELSE /\ users' = IF ctx[t].new_user
                               THEN users \cup {[id |-> ctx[t].user_id,
                                                 email |-> change_data.author_email]}
                               ELSE users
                 /\ changes' = Append(changes, NewRow(change_data, ctx[t].user_id))
                 /\ total_changes' =
                       [total_changes EXCEPT ![r] =
                           CounterAfter(ctx[t].seen_total, total_changes[r])]
                 /\ ctx' = [ctx EXCEPT ![t] = QueueForAiProcessing(@, Len(changes) + 1)]
    /\ UNCHANGED <<watchVars, disk, queue, stopping, lastCall, nEvents, nApi,
                   histVars, auxVars, obsVars, user_seq, castVars, invoked,
                   handled>>

\* The try/except around each callback in _on_file_change: the loop goes on
\* whether the callback raised or not.
GoesOnUnlessRaised(raises) == ~raises

GoesOn(raises) == TRUE

\* A callback other than handle_file_change is called with the record and
\* returns or raises.
CallObserver(t, raises) ==
    /\ t \in Threads
    /\ ctx[t].pc = "callback"
    /\ Callback(t) # "handle_file_change"
    /\ invoked' = [invoked EXCEPT ![t[1]] =
                      Append(@, [fn |-> Callback(t), rec |-> ctx[t].rec,
                                 ok |-> ~raises,
                                 out |-> IF raises THEN "raised" ELSE "returned"])]
    /\ ctx' = [ctx EXCEPT ![t] =
                 IF GoesOn(raises) THEN NextCallback(t, @)
                 ELSE [IdleCtx EXCEPT !.stopped = (t[2] = "cur" /\ ctx[t].stopped)]]
    /\ late' = IF ctx[t].stopped THEN late \cup {<<t[1], "observer">>} ELSE late
    /\ UNCHANGED <<watchVars, disk, queue, stopping, changes, lastCall, nEvents,
                   nApi, rejected, reposted, auxVars, obsVars, dbVars, castVars,
                   handled>>

\* ChangeProcessor._send_change_to_ai, up to the first POST: a row already
\* sent is skipped with success; otherwise _prepare_ai_payload reads the
\* versions to send.
SkipIfSentNever(row) == FALSE

SkipIfSent(row) == row.sent_to_ai

SendChangeToAi(c) ==
    /\ ctx[c].pc = "send"
    /\ ctx' = [ctx EXCEPT ![c] =
          LET d == [@ EXCEPT !.sentAtBegin = changes[ctx[c].cid].sent_to_ai] IN
          IF SkipIfSent(changes[ctx[c].cid])
            THEN [d EXCEPT !.pc = "ret", !.ok = TRUE]
            ELSE [d EXCEPT !.pc = "post", !.attempt = 1,
                           !.payload = GetFileVersions(changes[ctx[c].cid],
                               disk[changes[ctx[c].cid].repository_id],
                               head[changes[ctx[c].cid].repository_id])]]
    /\ UNCHANGED <<watchVars, disk, queue, stopping, changes, lastCall, nEvents,
                   nApi, histVars, auxVars, extVars>>

\* ChangeProcessor._send_to_ai_with_retries: what one answer does to the loop.
IsAccepted(resp)  == resp = 200

IsTerminalNever(resp) == FALSE

IsTerminal(resp)  == resp = 400

HasRetryLeft(attempt) == attempt < max_retries

WaitTimeOffByOne(attempt) == Pow2(attempt - 1)

WaitTime(attempt) == Pow2(attempt)

\* One requests.post of _send_to_ai_with_retries and the branch taken on its
\* answer: accepted, rejected for good, or (if attempts are left) sleep.
Post(c, resp) ==
    /\ ctx[c].pc = "post"
    /\ reposted' = IF ctx[c].cid \in rejected THEN reposted \cup {ctx[c].cid}
                   ELSE reposted
    /\ ctx' = [ctx EXCEPT ![c] =
          LET d == [@ EXCEPT !.resps = Append(@, resp)] IN
          IF IsAccepted(resp) THEN [d EXCEPT !.pc = "mark"]
          ELSE IF IsTerminal(resp) THEN [d EXCEPT !.pc = "ret", !.ok = FALSE]
          ELSE IF HasRetryLeft(d.attempt)
            THEN [d EXCEPT !.pc = "sleep", !.waits = Append(@, WaitTime(d.attempt))]
            ELSE [d EXCEPT !.pc = "ret", !.ok = FALSE]]
    /\ rejected' = IF IsTerminal(resp) THEN rejected \cup {ctx[c].cid} ELSE rejected
    /\ UNCHANGED <<watchVars, disk, queue, stopping, changes, lastCall, nEvents,
                   nApi, late, auxVars, extVars>>

\* time.sleep(wait_time) is over: next attempt.
Wake(c) ==
    /\ ctx[c].pc = "sleep"
    /\ ctx' = [ctx EXCEPT ![c].pc = "post", ![c].attempt = @ + 1]
    /\ UNCHANGED <<watchVars, disk, queue, stopping, changes, lastCall, nEvents,
                   nApi, histVars, auxVars, extVars>>

\* _send_change_to_ai after a successful send: mark the row and commit.
MarkSent(c) ==
    /\ ctx[c].pc = "mark"
    /\ changes' = [changes EXCEPT ![ctx[c].cid].sent_to_ai = TRUE,
                                  ![ctx[c].cid].is_processed = TRUE]
    /\ ctx' = [ctx EXCEPT ![c].pc = "ret", ![c].ok = TRUE]
    /\ UNCHANGED <<watchVars, disk, queue, stopping, lastCall, nEvents, nApi,
                   histVars, auxVars, extVars>>

\* _send_change_to_ai has returned.  On a dispatch thread the callback and
\* _on_file_change are over; on the API thread the batch loop goes on with the
\* next row.
\* The dict a batch call returns: one result per row it went through, the
\* number of results (processed, or retried), of successes, and the difference
\* of the two; when the query found no row, only a count of 0 and a message.
CountTrue(s) == Cardinality({i \in 1..Len(s) : s[i]})

BatchResult(op, ids, sent) ==
    IF ids = <<>>
      THEN [op |-> op, ids |-> <<>>, sent |-> <<>>, processed |-> 0]
      ELSE [op |-> op, ids |-> ids, sent |-> sent, processed |-> Len(sent),
            successful |-> CountTrue(sent), failed |-> Len(sent) - CountTrue(sent)]

NextInBatch(c) ==
    IF c.todo = <<>>
      THEN [IdleCtx EXCEPT !.pc = "result",
                           !.result = BatchResult(c.op, c.batch, Append(c.sent, c.ok))]
    ELSE [IdleCtx EXCEPT !.pc = "send", !.cid = Head(c.todo), !.todo = Tail(c.todo),
                         !.batch = c.batch, !.op = c.op,
                         !.sent = Append(c.sent, c.ok)]

\* On a dispatch thread, handle_file_change then calls asyncio.create_task,
\* which raises there (the thread runs no event loop) before anything is
\* scheduled: the exception is logged and nothing is broadcast.
Return(c) ==
    /\ ctx[c].pc = "ret"
    /\ ctx' = [ctx EXCEPT ![c] =
          IF c = API THEN NextInBatch(@) ELSE NextCallback(c, @)]
    /\ lastCall' = IF c = API /\ ctx[c].todo = <<>>
                     THEN Call("batch", "", TRUE, FALSE) ELSE lastCall
    /\ UNCHANGED <<watchVars, disk, queue, stopping, changes, nEvents, nApi,
                   histVars, auxVars, obsVars, dbVars, castVars, invoked, handled>>

\* Row ids of `rows` (ascending) that satisfy Keep, and the first n of a list.
RECURSIVE Select(_, _, _)
Select(rows, i, from) ==
    IF i > Len(rows) THEN <<>>
    ELSE IF ~rows[i].sent_to_ai /\ i >= from
      THEN <<i>> \o Select(rows, i + 1, from)
      ELSE Select(rows, i + 1, from)

RECURSIVE Reverse(_)
Reverse(s) == IF s = <<>> THEN <<>> ELSE Append(Reverse(Tail(s)), Head(s))

Limit(s, n) == SubSeq(s, 1, IF Len(s) < n THEN Len(s) ELSE n)

\* The query of process_unsent_changes: unsent rows, oldest first, limit.
UnsentChangesUnlimited(rows, limit) == Select(rows, 1, 1)

UnsentChanges(rows, limit) == Limit(Select(rows, 1, 1), limit)

\* The query of retry_failed_changes: unsent rows not older than since_time
\* (rows from id `since` on), newest first, limit.
FailedChanges(rows, since, limit) == Limit(Reverse(Select(rows, 1, since)), limit)

StartBatch(op, list) ==
    /\ nApi' = nApi + 1
    /\ IF list = <<>>
         THEN /\ lastCall' = Call("batch", "", TRUE, TRUE)
              /\ ctx' = [ctx EXCEPT ![API] =
                   [IdleCtx EXCEPT !.pc = "result",
                                   !.result = BatchResult(op, <<>>, <<>>)]]
         ELSE /\ ctx' = [ctx EXCEPT ![API] =
                   [IdleCtx EXCEPT !.pc = "send", !.cid = Head(list),
                                   !.todo = Tail(list), !.batch = list,
                                   !.op = op]]
              /\ UNCHANGED lastCall
    /\ UNCHANGED <<watchVars, disk, queue, stopping, changes, nEvents, histVars,
                   auxVars, obsVars, dbVars, castVars, invoked, handled>>

\* The endpoint of a batch call answers with the dict the call returned.
Respond ==
    /\ ctx[API].pc = "result"
    /\ ctx' = [ctx EXCEPT ![API] = IdleCtx]
    /\ UNCHANGED <<watchVars, disk, queue, stopping, changes, lastCall, nEvents,
                   nApi, histVars, auxVars, extVars>>

\* ChangeProcessor.process_unsent_changes(db, limit)
ProcessUnsentChanges(limit) ==
    /\ ApiIdle /\ nApi < MaxBatches
    /\ StartBatch("process_unsent_changes", UnsentChanges(changes, limit))

\* ChangeProcessor.retry_failed_changes(db, hours_back, limit)
RetryFailedChanges(since, limit) ==
    /\ ApiIdle /\ nApi < MaxBatches
    /\ StartBatch("retry_failed_changes", FailedChanges(changes, since, limit))

\* ------------------------------------------------- live feed
\* websocket_live_feed: a client is accepted and added to the set; when its
\* connection ends it is discarded.
Connect(ws) ==
    /\ ws \notin websocket_connections
    /\ websocket_connections' = websocket_connections \cup {ws}
    /\ UNCHANGED <<watchVars, disk, queue, ctx, stopping, changes, lastCall,
                   nEvents, nApi, histVars, auxVars, obsVars, dbVars, lastCast,
                   invoked, handled>>

Disconnect(ws) ==
    /\ ws \in websocket_connections
    /\ websocket_connections' = websocket_connections \ {ws}
    /\ UNCHANGED <<watchVars, disk, queue, ctx, stopping, changes, lastCall,
                   nEvents, nApi, histVars, auxVars, obsVars, dbVars, lastCast,
                   invoked, handled>>

\* The name websocket_connections inside broadcast_change: the function
\* assigns to it (`websocket_connections -= disconnected_clients`) without
\* declaring it global, so Python compiles every use of the name in the
\* function as a local variable, which holds no value when it is first read.
NameIsLocal == TRUE

\* broadcast_change(change_data), run on the event loop.  failing: the
\* clients whose send_text raises.  The first statement reads the name: the
\* call raises there, before anything is sent.  (Were the name the module's
\* set, every client would be sent the message and the failing ones removed.)
BroadcastChange(failing) ==
    /\ failing \subseteq websocket_connections
    /\ IF NameIsLocal
         THEN /\ lastCast' = [before |-> websocket_connections, failing |-> failing,
                              sent |-> {}, raised |-> TRUE]
              /\ UNCHANGED websocket_connections
         ELSE /\ lastCast' = [before |-> websocket_connections, failing |-> failing,
                              sent |-> websocket_connections \ failing,
                              raised |-> FALSE]
              /\ websocket_connections' = websocket_connections \ failing
    /\ UNCHANGED <<watchVars, disk, queue, ctx, stopping, changes, lastCall,
                   nEvents, nApi, histVars, auxVars, obsVars, dbVars, invoked,
                   handled>>

\* ------------------------------------------------- specifications
\* Watcher lifecycle and event path: the manager calls on the API thread, the
\* filesystem (files are written with one content, or deleted), the dispatch
\* threads with the delivery their callback performs.
BackendAnswers == {200, 500}

Next ==
    \/ \E r \in Repos : AddRepository(r, TRUE)
    \/ \E r \in Repos : StartWatching(r)
    \/ \E r \in Repos : StopWatching(r)
    \/ \E r \in Repos : RemoveRepository(r)
    \/ \E r \in Repos : StopJoined(r)
    \/ \E r \in Repos, p \in Paths : FsWrite(r, p, TextX)
    \/ \E r \in Repos, p \in Paths : FsDelete(r, p)
    \/ \E r \in Repos : Dispatch(r)
    \/ \E t \in Threads : ExtractGitInfo(t, TRUE, AliceCommit)
    \/ \E t \in Threads : HandleFileChange(t, TRUE)
    \/ \E t \in Threads : CommitChange(t, TRUE)
    \/ \E c \in Ctx : SendChangeToAi(c)
    \/ \E c \in Ctx, resp \in BackendAnswers : Post(c, resp)
    \/ \E c \in Ctx : Wake(c)
    \/ \E c \in Ctx : MarkSent(c)
    \/ \E c \in Ctx : Return(c)

Spec == Init /\ [][Next]_vars

\* Delivery: repository r1 is registered and watched (its empty tree seeded);
\* events arrive, the callback persists and delivers, and the API thread runs
\* the batch retries while the backend answers anything.
Watched == {"r1"}

InitDeliver ==
    /\ watchers = Watched
    /\ usedIds = Watched
    /\ is_running = [r \in Repos |-> r \in Watched]
    /\ observer = [r \in Repos |-> IF r \in Watched THEN "started" ELSE "none"]
    /\ file_snapshots = [r \in Repos |-> EmptyMap]
    /\ disk = [r \in Repos |-> EmptyMap]
    /\ queue = [r \in Repos |-> <<>>]
    /\ ctx = [c \in Ctx |-> IdleCtx]
    /\ stopping = [r \in Repos |-> "no"]
    /\ changes = <<>>
    /\ lastCall = NoCall
    /\ nEvents = 0
    /\ nApi = 0
    /\ rejected = {}
    /\ reposted = {}
    /\ late = {}
    /\ head = [r \in Repos |-> EmptyMap]
    /\ bulk = NoBulk
    /\ dropped = {}
    /\ ServiceStarted

NextDeliver ==
    \/ \E r \in Watched, p \in Paths, c \in Contents : FsWrite(r, p, c)
    \/ \E r \in Watched, p \in Paths : FsDelete(r, p)
    \/ \E r \in Watched : Dispatch(r)
    \/ \E t \in Threads : ExtractGitInfo(t, TRUE, AliceCommit)
    \/ \E t \in Threads : HandleFileChange(t, TRUE)
    \/ \E t \in Threads : CommitChange(t, TRUE)
    \/ \E c \in Ctx : SendChangeToAi(c)
    \/ \E c \in Ctx, resp \in Responses : Post(c, resp)
    \/ \E c \in Ctx : Wake(c)
    \/ \E c \in Ctx : MarkSent(c)
    \/ \E c \in Ctx : Return(c)

SpecDeliver == InitDeliver /\ [][NextDeliver]_vars

\* Redelivery: as SpecDeliver, with the batch retries of the API thread running
\* beside the event path; the backend accepts, rejects for good or fails, and
\* the changes are writes of one content.
RetryAnswers == {200, 400, 500}

NextRetry ==
    \/ \E r \in Watched, p \in Paths : FsWrite(r, p, TextX)
    \/ \E r \in Watched : Dispatch(r)
    \/ \E t \in Threads : ExtractGitInfo(t, TRUE, AliceCommit)
    \/ \E t \in Threads : HandleFileChange(t, TRUE)
    \/ \E t \in Threads : CommitChange(t, TRUE)
    \/ \E c \in Ctx : SendChangeToAi(c)
    \/ \E c \in Ctx, resp \in RetryAnswers : Post(c, resp)
    \/ \E c \in Ctx : Wake(c)
    \/ \E c \in Ctx : MarkSent(c)
    \/ \E c \in Ctx : Return(c)
    \/ Respond
    \/ \E n \in 1..MaxLimit : ProcessUnsentChanges(n)
    \/ \E s \in 1..MaxEvents, n \in 1..MaxLimit : RetryFailedChanges(s, n)

SpecRetry == InitDeliver /\ [][NextRetry]_vars

\* Observers: repository r1 is watched; callbacks are registered with the
\* manager, r2 is added and started, files change in both, the callbacks
\* other than handle_file_change return or raise, and the backend accepts
\* every delivery.
Observers == {"f", "g"}

NextObs ==
    \/ \E callback \in Observers : AddChangeCallback(callback)
    \/ \E valid \in BOOLEAN : AddRepository("r2", valid)
    \/ StartWatching("r2")
    \/ \E r \in Repos, p \in Paths : FsWrite(r, p, TextX)
    \/ \E r \in Repos : Dispatch(r)
    \/ \E t \in Threads : ExtractGitInfo(t, TRUE, AliceCommit)
    \/ \E t \in Threads : HandleFileChange(t, TRUE)
    \/ \E t \in Threads : CommitChange(t, TRUE)
    \/ \E t \in Threads, raises \in BOOLEAN : CallObserver(t, raises)
    \/ \E c \in Ctx : SendChangeToAi(c)
    \/ \E c \in Ctx : Post(c, 200)
    \/ \E c \in Ctx : MarkSent(c)
    \/ \E c \in Ctx : Return(c)

SpecObs == InitDeliver /\ [][NextObs]_vars

\* Validation: handle_file_change is called, on the dispatch thread of r1,
\* with records that are well formed, that lack one mandatory field, or whose
\* change_type is none of the three; the session succeeds or fails, and the
\* backend accepts or rejects.
GoodRecord ==
    ChangeData("r1", APy, "modified", TextX,
               [lines_added |-> 1, lines_removed |-> 0], GetAuthorInfo(AliceCommit))

Without(d, field) == [k \in DOMAIN d \ {field} |-> d[k]]

Records ==
    {GoodRecord, [GoodRecord EXCEPT !.change_type = "moved"]}
       \cup {Without(GoodRecord, field) : field \in required_fields}
       \cup {Without(GoodRecord, "git_diff")}

\* A caller hands change_data to the callbacks of watcher t[1].
OnRecord(t, change_data) ==
    /\ t[2] = "cur" /\ t[1] \in watchers
    /\ ctx[t].pc = "idle"
    /\ handled[t[1]] < MaxEvents
    /\ handled' = [handled EXCEPT ![t[1]] = @ + 1]
    /\ ctx' = [ctx EXCEPT ![t] =
                 [IdleCtx EXCEPT !.pc = "callback", !.cbi = 1,
                                 !.rec = handled[t[1]] + 1,
                                 !.change_data = change_data]]
    /\ UNCHANGED <<watchVars, disk, queue, stopping, changes, lastCall, nEvents,
                   nApi, histVars, auxVars, obsVars, dbVars, castVars, invoked>>

NextValidate ==
    \/ \E t \in Threads, change_data \in Records : OnRecord(t, change_data)
    \/ \E t \in Threads, db_ok \in BOOLEAN : HandleFileChange(t, db_ok)
    \/ \E t \in Threads, db_ok \in BOOLEAN : CommitChange(t, db_ok)
    \/ \E c \in Ctx : SendChangeToAi(c)
    \/ \E c \in Ctx, resp \in {200, 400} : Post(c, resp)
    \/ \E c \in Ctx : MarkSent(c)
    \/ \E c \in Ctx : Return(c)

SpecValidate == InitDeliver /\ [][NextValidate]_vars

\* Persistence: repository r1 is watched.  Its files change, git names an
\* author or fails, the database session succeeds or fails, r1 is stopped and
\* started again, and the backend accepts every delivery.
Authors == {AliceCommit, GitError}

NextPersist ==
    \/ StopWatching("r1")
    \/ StopJoined("r1")
    \/ StartWatching("r1")
    \/ \E r \in Watched, p \in Paths : FsWrite(r, p, TextX)
    \/ \E r \in Watched : Dispatch(r)
    \/ \E t \in Threads, log \in Authors : ExtractGitInfo(t, TRUE, log)
    \/ \E t \in Threads, db_ok \in BOOLEAN : HandleFileChange(t, db_ok)
    \/ \E t \in Threads, db_ok \in BOOLEAN : CommitChange(t, db_ok)
    \/ \E c \in Ctx : SendChangeToAi(c)
    \/ \E c \in Ctx : Post(c, 200)
    \/ \E c \in Ctx : MarkSent(c)
    \/ \E c \in Ctx : Return(c)

SpecPersist == InitDeliver /\ [][NextPersist]_vars

\* Redelivery of changed files: as SpecDeliver with the backend accepting or
\* failing, while process_unsent_changes runs on the API thread.
FlakyAnswers == {200, 500}

NextRedeliver ==
    \/ \E r \in Watched, p \in Paths, c \in Contents : FsWrite(r, p, c)
    \/ \E r \in Watched, p \in Paths : FsDelete(r, p)
    \/ \E r \in Watched : Dispatch(r)
    \/ \E t \in Threads : ExtractGitInfo(t, TRUE, AliceCommit)
    \/ \E t \in Threads : HandleFileChange(t, TRUE)
    \/ \E t \in Threads : CommitChange(t, TRUE)
    \/ \E c \in Ctx : SendChangeToAi(c)
    \/ \E c \in Ctx, resp \in FlakyAnswers : Post(c, resp)
    \/ \E c \in Ctx : Wake(c)
    \/ \E c \in Ctx : MarkSent(c)
    \/ \E c \in Ctx : Return(c)
    \/ Respond
    \/ \E n \in 1..MaxLimit : ProcessUnsentChanges(n)

SpecRedeliver == InitDeliver /\ [][NextRedeliver]_vars

\* Restart: repository r1 is watched.  Its files are written and deleted, r1
\* is stopped and started again, and the backend accepts every delivery.
NextRestart ==
    \/ StopWatching("r1")
    \/ StopJoined("r1")
    \/ StartWatching("r1")
    \/ \E r \in Watched, p \in Paths : FsWrite(r, p, TextX)
    \/ \E r \in Watched, p \in Paths : FsDelete(r, p)
    \/ \E r \in Watched : Dispatch(r)
    \/ \E t \in Threads : ExtractGitInfo(t, TRUE, AliceCommit)
    \/ \E t \in Threads : HandleFileChange(t, TRUE)
    \/ \E t \in Threads : CommitChange(t, TRUE)
    \/ \E c \in Ctx : SendChangeToAi(c)
    \/ \E c \in Ctx : Post(c, 200)
    \/ \E c \in Ctx : MarkSent(c)
    \/ \E c \in Ctx : Return(c)

SpecRestart == InitDeliver /\ [][NextRestart]_vars

\* Records: repository r1 is watched.  Its files are written and deleted,
\* reads of the changed file succeed or raise, git names an author from a
\* commit or from the configuration or fails, and the backend accepts every
\* delivery.
Logs == {AliceCommit, BobConfig, NameOnlyConfig, ConfigError, GitError}

NextRecord ==
    \/ \E r \in Watched, p \in Paths : FsWrite(r, p, TextX)
    \/ \E r \in Watched, p \in Paths : FsDelete(r, p)
    \/ \E r \in Watched : Dispatch(r)
    \/ \E t \in Threads, readable \in BOOLEAN, log \in Logs :
          ExtractGitInfo(t, readable, log)
    \/ \E t \in Threads : HandleFileChange(t, TRUE)
    \/ \E t \in Threads : CommitChange(t, TRUE)
    \/ \E c \in Ctx : SendChangeToAi(c)
    \/ \E c \in Ctx : Post(c, 200)
    \/ \E c \in Ctx : MarkSent(c)
    \/ \E c \in Ctx : Return(c)

SpecRecord == InitDeliver /\ [][NextRecord]_vars

\* Live feed: clients connect and disconnect, and broadcast_change is called
\* while the sends to some of the connected clients fail.
Sockets == {"w1", "w2", "w3"}

NextCast ==
    \/ \E ws \in Sockets : Connect(ws)
    \/ \E ws \in Sockets : Disconnect(ws)
    \/ \E failing \in SUBSET Sockets : BroadcastChange(failing)

SpecCast == InitDeliver /\ [][NextCast]_vars

\* Snapshot store and diff: repository r1 is registered over some tree with
\* some HEAD commit; it is started (the seeding walk; start is called while it
\* is not running), files and directories change, reads of the changed file
\* succeed or raise, and the backend accepts every delivery.
EnvPy        == << <<"e", "n", "v", "i", "r", "o", "n", "m", "e", "n", "t", ".", "p", "y">> >>
PkgDir       == << <<"p", "k", "g">> >>
SnapPaths    == {APy, EnvPy}
Hello        == << <<"h", "e", "l", "l", "o">> >>
HelloWorld   == << <<"h", "e", "l", "l", "o", " ", "w", "o", "r", "l", "d">> >>
DashText     == << <<"a">>, <<"-", "-", "x">> >>
HelloNl      == << <<"h", "e", "l", "l", "o">>, <<>> >>
SnapContents == {EmptyStr, Hello, HelloWorld, DashText}
SnapTrees    == {EmptyMap, [p \in {APy} |-> Hello], [p \in {APy} |-> DashText],
                 [p \in SnapPaths |-> EmptyStr]}
HeadTrees    == {EmptyMap, [p \in {APy} |-> HelloNl]}
EventKinds   == {"created", "modified", "deleted"}

InitSnap ==
    /\ watchers = Watched
    /\ usedIds = Watched
    /\ is_running = [r \in Repos |-> FALSE]
    /\ observer = [r \in Repos |-> "none"]
    /\ file_snapshots = [r \in Repos |-> EmptyMap]
    /\ \E tree \in SnapTrees :
          disk = [r \in Repos |-> IF r \in Watched THEN tree ELSE EmptyMap]
    /\ \E headTree \in HeadTrees :
          head = [r \in Repos |-> IF r \in Watched THEN headTree ELSE EmptyMap]
    /\ queue = [r \in Repos |-> <<>>]
    /\ ctx = [c \in Ctx |-> IdleCtx]
    /\ stopping = [r \in Repos |-> "no"]
    /\ changes = <<>>
    /\ lastCall = NoCall
    /\ nEvents = 0
    /\ nApi = 0
    /\ rejected = {}
    /\ reposted = {}
    /\ late = {}
    /\ bulk = NoBulk
    /\ dropped = {}
    /\ ServiceStarted

NextSnap ==
    \/ \E r \in Watched : ~is_running[r] /\ StartWatching(r)
    \/ \E r \in Watched, p \in SnapPaths, c \in SnapContents : FsWrite(r, p, c)
    \/ \E r \in Watched, p \in SnapPaths : FsDelete(r, p)
    \/ \E r \in Watched, kind \in EventKinds : FsDirectory(r, PkgDir, kind)
    \/ \E r \in Watched : Dispatch(r)
    \/ \E t \in Threads, readable \in BOOLEAN : ExtractGitInfo(t, readable, AliceCommit)
    \/ \E t \in Threads : HandleFileChange(t, TRUE)
    \/ \E t \in Threads : CommitChange(t, TRUE)
    \/ \E c \in Ctx : SendChangeToAi(c)
    \/ \E c \in Ctx : Post(c, 200)
    \/ \E c \in Ctx : MarkSent(c)
    \/ \E c \in Ctx : Return(c)

SpecSnap == InitSnap /\ [][NextSnap]_vars

\* Diff engine: repository r1 is watched, its snapshot holds content A (or no
\* entry) for a.py, the tree holds content B (or no file), and the event of
\* the change from A to B is queued; it is processed and delivered.  A and B
\* range over every text of at most MaxLines lines.
LineAlphabet == {<<"a">>, <<"-", "-", "x">>, <<>>}
DiffContents == UNION {[1..n -> LineAlphabet] : n \in 1..MaxLines}
DiffMaps     == {EmptyMap} \cup {[p \in {APy} |-> c] : c \in DiffContents}

ChangeKind(snap, tree) ==
    IF APy \notin DOMAIN tree THEN "deleted"
    ELSE IF APy \in DOMAIN snap THEN "modified" ELSE "created"

InitDiff ==
    /\ watchers = Watched
    /\ usedIds = Watched
    /\ is_running = [r \in Repos |-> r \in Watched]
    /\ observer = [r \in Repos |-> IF r \in Watched THEN "started" ELSE "none"]
    /\ \E snap \in DiffMaps, tree \in DiffMaps :
          /\ snap # tree
          /\ file_snapshots = [r \in Repos |-> IF r \in Watched THEN snap ELSE EmptyMap]
          /\ disk = [r \in Repos |-> IF r \in Watched THEN tree ELSE EmptyMap]
          /\ queue = [r \in Repos |->
                IF r \in Watched
                  THEN <<[path |-> APy, kind |-> ChangeKind(snap, tree),
                          is_directory |-> FALSE]>>
                  ELSE <<>>]
    /\ head = [r \in Repos |-> EmptyMap]
    /\ ctx = [c \in Ctx |-> IdleCtx]
    /\ stopping = [r \in Repos |-> "no"]
    /\ changes = <<>>
    /\ lastCall = NoCall
    /\ nEvents = 0
    /\ nApi = 0
    /\ rejected = {}
    /\ reposted = {}
    /\ late = {}
    /\ bulk = NoBulk
    /\ dropped = {}
    /\ ServiceStarted

NextDiff ==
    \/ \E r \in Watched : Dispatch(r)
    \/ \E t \in Threads : ExtractGitInfo(t, TRUE, AliceCommit)
    \/ \E t \in Threads : HandleFileChange(t, TRUE)
    \/ \E t \in Threads : CommitChange(t, TRUE)
    \/ \E c \in Ctx : SendChangeToAi(c)
    \/ \E c \in Ctx : Post(c, 200)
    \/ \E c \in Ctx : MarkSent(c)
    \/ \E c \in Ctx : Return(c)

SpecDiff == InitDiff /\ [][NextDiff]_vars

\* Bulk operations: some repositories were registered at startup; further
\* ones are added with a usable or an unusable path, watchers are started one
\* by one or all at once and stopped all at once, while files of repository
\* r2 are written and their events are processed and delivered.
IdMaps == UNION {[ids -> BOOLEAN] : ids \in SUBSET Repos}

InitBulk ==
    /\ \E registered \in SUBSET Repos :
          watchers = registered /\ usedIds = registered
    /\ is_running = [r \in Repos |-> FALSE]
    /\ observer = [r \in Repos |-> "none"]
    /\ file_snapshots = [r \in Repos |-> EmptyMap]
    /\ disk = [r \in Repos |-> EmptyMap]
    /\ queue = [r \in Repos |-> <<>>]
    /\ ctx = [c \in Ctx |-> IdleCtx]
    /\ stopping = [r \in Repos |-> "no"]
    /\ changes = <<>>
    /\ lastCall = NoCall
    /\ nEvents = 0
    /\ nApi = 0
    /\ rejected = {}
    /\ reposted = {}
    /\ late = {}
    /\ head = [r \in Repos |-> EmptyMap]
    /\ bulk = NoBulk
    /\ dropped = {}
    /\ ServiceStarted

NextBulk ==
    \/ \E r \in Repos, valid \in BOOLEAN : AddRepository(r, valid)
    \/ \E r \in Repos : StartWatching(r)
    \/ \E started \in IdMaps : StartAll(started)
    \/ StopAll
    \/ \E r \in Repos, raises \in BOOLEAN : StopAllNext(r, raises)
    \/ \E r \in Repos : StopJoined(r)
    \/ StopAllReturn
    \/ \E p \in Paths : FsWrite("r2", p, TextX)
    \/ \E r \in Repos : Dispatch(r)
    \/ \E t \in Threads : ExtractGitInfo(t, TRUE, AliceCommit)
    \/ \E t \in Threads : HandleFileChange(t, TRUE)
    \/ \E t \in Threads : CommitChange(t, TRUE)
    \/ \E c \in Ctx : SendChangeToAi(c)
    \/ \E c \in Ctx : Post(c, 200)
    \/ \E c \in Ctx : MarkSent(c)
    \/ \E c \in Ctx : Return(c)

SpecBulk == InitBulk /\ [][NextBulk]_vars

\* ------------------------------------------------- properties
Delivering(c) == ctx[c].pc \in {"post", "sleep"}
Returned(c)   == ctx[c].pc = "ret" /\ ctx[c].resps # <<>>
AllAre(s, v)  == \A i \in 1..Len(s) : s[i] = v
Pending(id)   == ~changes[id].sent_to_ai

\* C1: delivery and its backoff waits run on a path independent of the
\* watcher's event path: no dispatch thread is ever inside a POST or a backoff
\* sleep, and while some delivery is posting or sleeping every watcher with a
\* queued event can take it.
C1_DeliveryOffEventPath ==
    /\ \A t \in Threads : ~Delivering(t)
    /\ (\E c \in Ctx : Delivering(c)) =>
          \A r \in Repos :
             (observer[r] = "started" /\ ~ctx[<<r, "cur">>].stopped /\ queue[r] # <<>>)
                => ENABLED Dispatch(r)

\* C2: a deliver call answered 500 every time makes exactly 3 POSTs, waits 2 s
\* after the first and 4 s after the second, none after the third, and returns
\* failure with the record still Pending.
C2_Http500ThreeAttempts ==
    \A c \in Ctx :
        (Returned(c) /\ AllAre(ctx[c].resps, 500)) =>
            /\ Len(ctx[c].resps) = 3
            /\ ctx[c].waits = <<2, 4>>
            /\ ~ctx[c].ok
            /\ Pending(ctx[c].cid)

C2_Witness ==
    \E c \in Ctx : Returned(c) /\ ctx[c].resps = <<500, 500, 500>>

\* C3: a deliver call whose first POST is answered 400 makes exactly that one
\* POST, waits for no backoff and returns with the record Pending.
C3_Http400OneAttempt ==
    \A c \in Ctx :
        (ctx[c].resps # <<>> /\ ctx[c].resps[1] = 400) =>
            /\ ctx[c].pc = "ret"
            /\ Len(ctx[c].resps) = 1
            /\ ctx[c].waits = <<>>
            /\ ~ctx[c].ok
            /\ Pending(ctx[c].cid)

C3_Witness ==
    \E c \in Ctx : Returned(c) /\ ctx[c].resps = <<400>>

\* C4: an answer with any status in 400..499 ends the deliver call at once:
\* it is the last POST of the call.
C4_Every4xxTerminal ==
    \A c \in Ctx : \A i \in 1..Len(ctx[c].resps) :
        ctx[c].resps[i] \in 400..499 =>
            (i = Len(ctx[c].resps) /\ ctx[c].pc = "ret")

\* C5: an answer with any status in 200..299, on any attempt, ends the deliver
\* call with success and the record becomes Sent.
C5_Every2xxAccepted ==
    \A c \in Ctx : \A i \in 1..Len(ctx[c].resps) :
        ctx[c].resps[i] \in 200..299 =>
            /\ i = Len(ctx[c].resps)
            /\ ctx[c].pc \in {"mark", "ret"}
            /\ ctx[c].pc = "ret" => (ctx[c].ok /\ ~Pending(ctx[c].cid))

C7_RejectedNeverPostedAgain == reposted = {}

\* C8: once stop/remove has begun tearing a watcher down, none of its events
\* is processed: no snapshot write and no observer invocation happens for it.
C8_NoEventAfterTeardown == late = {}

\* C9: when stop() returns on a running watcher, the watcher is stopped and
\* its snapshot store is empty.
C9_StopClearsSnapshot ==
    [][\A r \in Repos :
          (stopping[r] # "no" /\ stopping'[r] = "no") =>
              (~is_running'[r] /\ file_snapshots'[r] = EmptyMap)]_vars

\* C10: stop() on a stopped watcher and start() on a running watcher report
\* success and leave the running flag, the subscription (observer, its queue
\* and its thread) and the snapshot store as they were.
Untouched(r) ==
    /\ lastCall'.ret /\ lastCall'.early /\ lastCall'.repo = r
    /\ is_running'[r] = is_running[r]
    /\ observer'[r] = observer[r]
    /\ queue'[r] = queue[r]
    /\ ctx'[<<r, "cur">>] = ctx[<<r, "cur">>]
    /\ file_snapshots'[r] = file_snapshots[r]

C10_StartStopIdempotent ==
    [][\A r \in watchers :
          /\ (StartWatching(r) /\ is_running[r]) => Untouched(r)
          /\ (StopWatching(r) /\ ~is_running[r]) => Untouched(r)]_vars

C10_Witness ==
    \E r \in watchers :
        /\ lastCall = Call("start", r, TRUE, TRUE)
        /\ is_running[r]
        /\ queue[r] # <<>>
        /\ file_snapshots[r] # InitializeSnapshots(r, file_snapshots[r], disk[r])

\* A dispatch thread t takes _get_proper_diff's step for the event it holds.
Processes(t) == ctx[t].pc = "extract" /\ ctx'[t].pc = "callback"

Entry(snap, p) == IF p \in DOMAIN snap THEN <<snap[p]>> ELSE <<>>

\* C11: on a running watcher the snapshot store changes only when an event
\* is processed, and processing an event for a path leaves the path's entry
\* equal to the file's content at that moment (the empty content is accepted
\* too when the file could not be read) and leaves no entry when the event
\* was a deletion or the file is gone.
C11_SnapshotTracksLastEvent ==
    [][\A r \in Repos :
          /\ (is_running[r] /\ file_snapshots'[r] # file_snapshots[r]) =>
                 \E s \in Slots : Processes(<<r, s>>)
          /\ \A s \in Slots :
                Processes(<<r, s>>) =>
                  LET p == ctx[<<r, s>>].path
                      e == Entry(file_snapshots'[r], p)
                  IN IF ctx[<<r, s>>].kind = "deleted" \/ p \notin DOMAIN disk[r]
                       THEN e = <<>>
                       ELSE \/ e = <<disk[r][p]>>
                            \/ ctx'[<<r, s>>].read_error /\ e = <<EmptyStr>>]_vars

\* C12: processing a Deleted event leaves no snapshot entry for the path; with
\* no entry before, the diff is the "no previous snapshot" text and both
\* counts are 0; with an entry of N lines before, lines removed is N and
\* lines added is 0, whatever the lines begin with.
C12_DeletedEventCounts ==
    [][\A t \in Threads :
          (Processes(t) /\ ctx[t].kind = "deleted") =>
             LET snap == file_snapshots[t[1]]
                 p    == ctx[t].path
             IN /\ p \notin DOMAIN file_snapshots'[t[1]]
                /\ ctx'[t].lines_added = 0
                /\ IF p \in DOMAIN snap
                     THEN ctx'[t].lines_removed = Len(SplitLines(snap[p]))
                     ELSE /\ ctx'[t].git_diff = S_FileDeleted
                          /\ ctx'[t].lines_removed = 0]_vars

\* A delivery thread c prepares the payload of its row.
Prepares(c) == ctx[c].pc = "send" /\ ctx'[c].pc = "post"

\* C13: a Created event for a path without snapshot entry whose file reads
\* "hello" gives a record of kind created with 1 line added and 0 removed; the
\* payload prepared for a created row while the file reads "hello" has the
\* placeholder as previous and "hello" as current; a Modified event that
\* finds the entry "hello" and the file "hello world" gives 1 added, 1 removed.
C13_HelloThenHelloWorld ==
    [][/\ \A t \in Threads :
            (Processes(t) /\ ~ctx'[t].read_error
               /\ ctx[t].path \in DOMAIN disk[t[1]]) =>
              LET snap    == file_snapshots[t[1]]
                  p       == ctx[t].path
                  content == disk[t[1]][p]
              IN /\ (ctx[t].kind = "created" /\ p \notin DOMAIN snap
                        /\ content = Hello) =>
                       /\ ctx'[t].kind = "created"
                       /\ ctx'[t].lines_added = 1 /\ ctx'[t].lines_removed = 0
                 /\ (ctx[t].kind = "modified" /\ p \in DOMAIN snap
                        /\ snap[p] = Hello /\ content = HelloWorld) =>
                       /\ ctx'[t].lines_added = 1 /\ ctx'[t].lines_removed = 1
       /\ \A c \in Ctx :
            Prepares(c) =>
              LET row == changes[ctx[c].cid] IN
              (/\ row.change_type = "created"
               /\ row.relative_path \in DOMAIN disk[row.repository_id]
               /\ disk[row.repository_id][row.relative_path] = Hello) =>
                 ctx'[c].payload = [previousV |-> S_empty, currentV |-> Hello]]_vars

C13_Witness ==
    /\ Len(changes) = 2
    /\ changes[1].change_type = "created" /\ changes[1].sent_to_ai
    /\ changes[1].git_diff = CreateDiff(APy, EmptyStr, Hello)
    /\ changes[1].lines_added = 1 /\ changes[1].lines_removed = 0
    /\ changes[2].change_type = "modified"
    /\ changes[2].git_diff = CreateDiff(APy, Hello, HelloWorld)
    /\ changes[2].lines_added = 1 /\ changes[2].lines_removed = 1

\* The texts that stand for "no diff".
Sentinels == {S_NoActualChanges, S_NoChanges, S_FileDeleted, S_ErrorReading}

\* The lines of a diff after its first hunk header.
RECURSIVE HunkBody(_)
HunkBody(diff) ==
    IF diff = <<>> THEN <<>>
    ELSE IF StartsWith(Head(diff), <<"@", "@">>) THEN Tail(diff)
    ELSE HunkBody(Tail(diff))

\* Applying hunk lines to the lines a: a ' ' line keeps the next line of a, a
\* '-' line drops it (both must find that very line), a '+' line inserts its
\* text.  A line that does not fit gives Conflict.
Conflict == << <<"conflict", "\n">> >>

RECURSIVE Patch(_, _)
Patch(a, body) ==
    IF body = <<>> THEN a
    ELSE LET line == Head(body) IN
         IF StartsWith(line, <<"+">>)
           THEN LET rest == Patch(a, Tail(body)) IN
                IF rest = Conflict THEN Conflict ELSE <<Tail(line)>> \o rest
         ELSE IF a # <<>> /\ line # <<>> /\ line[1] \in {" ", "-"}
                 /\ Tail(line) = Head(a)
           THEN LET rest == Patch(Tail(a), Tail(body)) IN
                IF rest = Conflict THEN Conflict
                ELSE IF line[1] = " " THEN <<Head(a)>> \o rest ELSE rest
         ELSE Conflict

\* C14: whenever the contents compared for an event differ, the diff is not
\* one of the sentinels, and applying its hunk lines to the lines of the
\* previous content gives the lines of the current content.
C14_DiffReconstructs ==
    \A t \in Threads :
        (ctx[t].pc = "callback" /\ ctx[t].prev # <<>> /\ ctx[t].prev # ctx[t].cur) =>
            /\ ctx[t].git_diff \notin Sentinels
            /\ Patch(SplitLines(ctx[t].prev), HunkBody(ctx[t].git_diff))
                  = SplitLines(ctx[t].cur)

C14_Witness ==
    \E t \in Threads :
        /\ ctx[t].pc = "callback"
        /\ ctx[t].prev = << <<"a">>, <<"-", "-", "x">>, <<>> >>
        /\ ctx[t].cur = << <<"-", "-", "x">>, <<"a">> >>
        /\ Len(ctx[t].git_diff) = 9

\* C15: a Created or Modified event that reads from its file a content equal
\* to the previous content gets the "no actual changes" text with both counts
\* 0, and its record goes on to the callbacks like any other: the row written
\* for it carries that text.
C15_EqualContentsStillEmitted ==
    [][\A t \in Threads :
          /\ (Processes(t) /\ ctx[t].kind \in {"created", "modified"}
                 /\ ctx[t].path \in DOMAIN disk[t[1]]
                 /\ ctx'[t].prev # <<>> /\ ctx'[t].prev = ctx'[t].cur) =>
                /\ ctx'[t].git_diff = S_NoActualChanges
                /\ ctx'[t].lines_added = 0 /\ ctx'[t].lines_removed = 0
          /\ (ctx[t].pc = "commit" /\ Len(changes') = Len(changes) + 1) =>
                /\ changes'[Len(changes')].git_diff = ctx[t].git_diff
                /\ changes'[Len(changes')].change_type = ctx[t].kind]_vars

C15_Witness ==
    \E i \in 1..Len(changes) :
        /\ changes[i].git_diff = S_NoActualChanges
        /\ changes[i].change_type = "modified"
        /\ changes[i].lines_added = 0 /\ changes[i].lines_removed = 0

\* C16: the block-list rule of the ignore predicate holds of a path exactly
\* when one of its segments is a block-listed name; here for the path of every
\* queued event.
C16_SegmentEqualsBlockedName ==
    \A r \in Repos : \A i \in 1..Len(queue[r]) :
        LET parts == RepoPath(r) \o queue[r][i].path IN
        HasIgnoredPart(parts) <=> \E k \in 1..Len(parts) : parts[k] \in ignored_patterns

\* C17: no snapshot entry exists for a path the ignore predicate rejects, and
\* no event for such a path and no directory event is handed to the event
\* path or written as a change row.
Ignored(r, p) == ShouldIgnoreFile(RepoPath(r) \o p)

C17_IgnoredNeverRecorded ==
    /\ \A r \in Repos : \A p \in DOMAIN file_snapshots[r] : ~Ignored(r, p)
    /\ \A t \in Threads :
          ctx[t].pc \in {"extract", "callback"} =>
             ~Ignored(t[1], ctx[t].path) /\ ctx[t].path # PkgDir
    /\ \A i \in 1..Len(changes) :
          /\ ~Ignored(changes[i].repository_id, changes[i].relative_path)
          /\ changes[i].relative_path # PkgDir
    /\ \A d \in dropped :
          d.event.is_directory \/ Ignored(d.repo, d.event.path)

\* Ids whose add_repository stored no watcher (no repository is removed in
\* SpecBulk).
Unbuilt == usedIds \ watchers

\* C18: add_repository with an unusable path reports failure and leaves the
\* registry and every watcher as they were; start_watching of an id for which
\* nothing was stored reports failure and starts nothing.
C18_InvalidAddStoresNothing ==
    [][\A r \in Repos :
          /\ AddRepository(r, FALSE) =>
                /\ ~lastCall'.ret /\ lastCall'.op = "add" /\ lastCall'.repo = r
                /\ UNCHANGED <<watchers, is_running, observer, file_snapshots>>
          /\ (r \in Unbuilt /\ StartWatching(r)) =>
                /\ ~lastCall'.ret /\ lastCall'.op = "start" /\ lastCall'.repo = r
                /\ UNCHANGED <<watchers, is_running, observer, file_snapshots>>]_vars

C18_Witness ==
    \E r \in Unbuilt :
        /\ lastCall = Call("start", r, FALSE, TRUE)
        /\ ~is_running[r] /\ observer[r] = "none"
        /\ \E x \in watchers : is_running[x]

\* C19 as stated: the map start_all returns has an entry with value false for
\* every id whose add_repository failed.
C19_StartAllReportsUnbuilt ==
    lastCall.op = "start_all" =>
        \A y \in Unbuilt : y \in DOMAIN lastCall.results /\ ~lastCall.results[y]

\* C19: the map start_all returns has exactly the registered ids as keys: an
\* id whose add_repository failed has no entry, no watcher exists for it, and
\* (until the next call) each registered id maps to whether it is running.
C19_StartAllOmitsUnbuilt ==
    (lastCall.op = "start_all" /\ bulk.op = "none") =>
        /\ DOMAIN lastCall.results = watchers
        /\ \A y \in Unbuilt :
              /\ y \notin DOMAIN lastCall.results
              /\ ~is_running[y] /\ observer[y] = "none"
        /\ \A x \in watchers : lastCall.results[x] = is_running[x]

C19_Witness ==
    \E x \in watchers, y \in Unbuilt :
        /\ lastCall.op = "start_all"
        /\ lastCall.results = [r \in {x} |-> TRUE]
        /\ is_running[x] /\ observer[x] = "started"

\* C20: the map start_all or stop_all returns has one boolean entry per
\* registered id and no other; every watcher was started (stopped) whatever
\* happened to the others: after start_all a watcher runs exactly if its entry
\* is true, after stop_all it runs exactly if its entry is false.
C20_BulkResultPerWatcher ==
    (lastCall.op \in {"start_all", "stop_all"} /\ bulk.op = "none") =>
        /\ DOMAIN lastCall.results = watchers
        /\ \A r \in watchers :
              /\ lastCall.results[r] \in BOOLEAN
              /\ lastCall.op = "start_all" => (lastCall.results[r] <=> is_running[r])
              /\ lastCall.op = "stop_all" => (lastCall.results[r] <=> ~is_running[r])

C20_Witness ==
    /\ lastCall.op = "stop_all" /\ nApi = 2
    /\ lastCall.results = [r \in Repos |-> r = "r2"]
    /\ is_running["r1"] /\ ~is_running["r2"] /\ observer["r2"] = "none"
    /\ \E i \in 1..Len(changes) : changes[i].repository_id = "r2"

C17_Witness ==
    /\ \E d \in dropped : d.event.is_directory
    /\ \E d \in dropped : ~d.event.is_directory /\ d.event.path = EnvPy
    /\ \E r \in Repos :
          /\ is_running[r] /\ lastCall = Call("start", r, TRUE, FALSE)
          /\ EnvPy \in DOMAIN disk[r]
          /\ APy \in DOMAIN file_snapshots[r]

\* The callbacks invoked with record number n of a watcher whose invocations
\* are log, in the order of their invocation.
InvokedWith(log, n) ==
    LET Of(e) == e.rec = n
        es == SelectSeq(log, Of)
    IN [i \in 1..Len(es) |-> es[i].fn]

\* The dispatch of thread t's record ends in this step.
Completes(t) ==
    /\ ctx[t].rec > 0 /\ ctx[t].pc # "idle" /\ ctx'[t].pc = "idle"
    /\ ~(t[2] = "cur" /\ ctx'[<<t[1], "old">>] = ctx[t])

Range(s) == {s[i] : i \in 1..Len(s)}

\* C21: whatever the order of add_repository and add_change_callback calls,
\* the callback list of every registered watcher holds every callback
\* registered with the manager, and when the dispatch of a record of a
\* registered watcher ends, every callback registered with the manager has
\* been invoked with that record.
C21_EveryWatcherCarriesEveryObserver ==
    [][/\ \A r \in watchers' :
             Range(mgr_callbacks') \subseteq Range(change_callbacks'[r])
       /\ \A t \in Threads :
             (Completes(t) /\ t[1] \in watchers) =>
                Range(mgr_callbacks')
                   \subseteq Range(InvokedWith(invoked'[t[1]], ctx[t].rec))]_vars

C21_Witness ==
    /\ "r2" \in watchers
    /\ Len(mgr_callbacks) >= 2
    /\ ctx[<<"r2", "cur">>].pc = "idle"
    /\ handled["r2"] = 1
    /\ InvokedWith(invoked["r2"], 1) = mgr_callbacks

\* C22: the callbacks of a watcher are invoked with a record one at a time in
\* the order of the watcher's list, and when the dispatch of the record ends
\* every callback of the list has been invoked with it, those after a callback
\* that raised included.
IsPrefix(s, l) == Len(s) <= Len(l) /\ s = SubSeq(l, 1, Len(s))

C22_OrderedAndIsolated ==
    [][\A t \in Threads :
          /\ IsPrefix(InvokedWith(invoked'[t[1]], ctx[t].rec), change_callbacks'[t[1]])
          /\ Completes(t) =>
                InvokedWith(invoked'[t[1]], ctx[t].rec) = change_callbacks'[t[1]]]_vars

C22_Witness ==
    \E r \in Repos : \E i, j \in 1..Len(invoked[r]) :
        /\ i < j
        /\ invoked[r][i].rec = invoked[r][j].rec
        /\ ~invoked[r][i].ok
        /\ invoked[r][i].fn = "f" /\ invoked[r][j].fn = "g"

\* C23: when handle_file_change is called with a record that lacks a
\* mandatory field or whose change_type is none of created, modified and
\* deleted, the call writes no change row and no user row, hands out no user
\* id, changes no counter and broadcasts nothing, and the record never gets
\* to the commit or to the delivery.
Malformed(change_data) ==
    \/ \E field \in required_fields : field \notin DOMAIN change_data
    \/ change_data.change_type \notin {"created", "modified", "deleted"}

C23_InvalidRecordNoSideEffect ==
    [][\A t \in Threads :
          (ctx[t].pc = "callback" /\ Callback(t) = "handle_file_change"
              /\ Malformed(ctx[t].change_data) /\ ctx'[t] # ctx[t]) =>
             /\ changes' = changes
             /\ users' = users /\ user_seq' = user_seq
             /\ total_changes' = total_changes
             /\ castVars' = castVars
             /\ ctx'[t].pc = "idle"]_vars

C23_Witness ==
    /\ \E i \in 1..Len(invoked["r1"]) : invoked["r1"][i].out = "invalid"
    /\ handled["r1"] = 1
    /\ ctx[<<"r1", "cur">>].pc = "idle"
    /\ changes = <<>> /\ users = {} /\ user_seq = 0
    /\ total_changes["r1"] = 0

\* The number of change rows written for repository r.
RowsOf(rows, r) == Cardinality({i \in 1..Len(rows) : rows[i].repository_id = r})

\* Thread t's attempt to persist its record ends in this step without a
\* change id: the session failed or was rolled back.
PersistFails(t) ==
    /\ \/ ctx[t].pc = "callback" /\ Callback(t) = "handle_file_change"
          /\ ValidateChangeData(ctx[t].change_data)
       \/ ctx[t].pc = "commit"
    /\ ctx'[t].pc = "idle" \/ ctx'[t].cbi # ctx[t].cbi
    /\ ~(t[2] = "cur" /\ ctx'[<<t[1], "old">>] = ctx[t])

CounterMatchesRows == \A r \in Repos : total_changes[r] = RowsOf(changes, r)

FailureLeavesNothing ==
    \A t \in Threads :
        PersistFails(t) =>
           /\ changes' = changes /\ users' = users
           /\ total_changes' = total_changes
           /\ castVars' = castVars
           /\ ctx'[t].pc \in {"idle", "callback"}

\* C24: in every committed state the total_changes of each repository is the
\* number of change rows written for it, and an attempt to persist a record
\* that fails leaves no change row, no user row and no counter change behind,
\* and the record is neither delivered nor broadcast.
C24_AllOrNothing == [][CounterMatchesRows' /\ FailureLeavesNothing]_vars

\* C25: the users table holds one row per email and one per id, every change
\* row carries the id of the user row of its author_email (so rows with the
\* same email carry the same id), and a user row, once written, stays as it
\* is.
UsersKeyedByEmail ==
    /\ \A u, v \in users : (u.email = v.email \/ u.id = v.id) => u = v
    /\ \A i \in 1..Len(changes) :
          \E u \in users : /\ u.email = changes[i].author_email
                           /\ u.id = changes[i].user_id

C25_OneUserPerEmail == [][UsersKeyedByEmail' /\ users \subseteq users']_vars

C25_Witness ==
    /\ Len(changes) = 2
    /\ changes[1].author_email = changes[2].author_email
    /\ changes[1].user_id = changes[2].user_id
    /\ Cardinality(users) = 1

\* C30: an event of a running watcher for a file that is not ignored is
\* taken from the queue into exactly one record; _extract_git_info always hands
\* that record to the first callback, with the error text as diff and both
\* counts 0 when the file cannot be read, and with author and email "unknown"
\* and no commit hash when git cannot name an author; and when the dispatch of
\* the event ends the record has been handed to the callbacks exactly once.
C30_OneRecordPerEvent ==
    [][/\ \A r \in Repos :
             (/\ is_running[r] /\ queue[r] # <<>> /\ queue'[r] = Tail(queue[r])
              /\ ~Head(queue[r]).is_directory
              /\ ~ShouldIgnoreFile(RepoPath(r) \o Head(queue[r]).path)) =>
                /\ handled'[r] = handled[r] + 1
                /\ ctx'[<<r, "cur">>].pc = "extract"
                /\ ctx'[<<r, "cur">>].rec = handled'[r]
                /\ ctx'[<<r, "cur">>].kind = Head(queue[r]).kind
       /\ \A t \in Threads, readable \in BOOLEAN, log \in Logs :
             ExtractGitInfo(t, readable, log) =>
                LET change_data == ctx'[t].change_data IN
                /\ ctx'[t].pc = "callback" /\ ctx'[t].cbi = 1
                /\ ctx'[t].rec = ctx[t].rec
                /\ change_data.repository_id = t[1]
                /\ change_data.relative_path = ctx[t].path
                /\ change_data.change_type = ctx[t].kind
                /\ (~readable /\ ctx[t].kind # "deleted"
                       /\ ctx[t].path \in DOMAIN disk[t[1]]) =>
                      /\ change_data.git_diff = S_ErrorReading
                      /\ change_data.lines_added = 0
                      /\ change_data.lines_removed = 0
                /\ log.kind \in {"error", "config_error"} =>
                      /\ change_data.author = "unknown"
                      /\ change_data.author_email = "unknown"
                      /\ change_data.commit_hash = None
       /\ \A t \in Threads :
             /\ Len(InvokedWith(invoked'[t[1]], ctx[t].rec)) <= 1
             /\ Completes(t) =>
                   InvokedWith(invoked'[t[1]], ctx[t].rec) = <<"handle_file_change">>]_vars

C30_Witness ==
    \E i \in 1..Len(changes) :
        /\ changes[i].git_diff = S_ErrorReading
        /\ changes[i].lines_added = 0 /\ changes[i].lines_removed = 0
        /\ changes[i].author_email = "unknown"
        /\ changes[i].sent_to_ai

\* C26: whatever the kind of the row, and also when the file cannot be read
\* or HEAD does not hold the path, neither previousV nor currentV of a
\* prepared payload is the empty string.
C26_PayloadNeverEmpty ==
    \A c \in Ctx :
        ctx[c].pc \in {"post", "wait", "mark"} =>
           /\ ctx[c].payload.previousV \notin {<<>>, EmptyStr}
           /\ ctx[c].payload.currentV \notin {<<>>, EmptyStr}

C26_Witness ==
    \E t \in Threads :
        /\ ctx[t].pc = "post" /\ ctx[t].kind = "modified"
        /\ ctx[t].path \notin DOMAIN disk[t[1]]
        /\ ctx[t].path \notin DOMAIN head[t[1]]
        /\ ctx[t].payload.currentV = S_empty

\* C27: the payload prepared for a deleted row whose path had a non-empty
\* snapshot entry carries, as previousV, exactly the content that entry held.
C27_DeletedPreviousIsSnapshot ==
    \A t \in Threads :
        (ctx[t].pc = "post" /\ ctx[t].kind = "deleted"
            /\ ctx[t].prev \notin {<<>>, EmptyStr}) =>
           ctx[t].payload.previousV = ctx[t].prev

\* C28: process_unsent_changes(limit) takes the rows that are unsent when it
\* is called, oldest first, and no more than limit of them (the oldest ones);
\* it POSTs only for a row that is unsent when its turn comes; and it goes
\* through every row it took, whatever the outcome of the rows before: its
\* result has one entry per row taken, and successful + failed = processed =
\* the number of rows taken.
Oldest(ids, rows, n) ==
    /\ Len(ids) <= n
    /\ \A i \in 1..Len(ids) : ids[i] \in 1..Len(rows) /\ ~rows[ids[i]].sent_to_ai
    /\ \A i, j \in 1..Len(ids) : i < j => ids[i] < ids[j]
    /\ \A k \in 1..Len(rows) :
          (~rows[k].sent_to_ai /\ k \notin Range(ids)) =>
             Len(ids) = n /\ \A i \in 1..Len(ids) : ids[i] < k

C29_BroadcastPrunesFailed ==
    [][(lastCast' # lastCast /\ websocket_connections # {}) =>
          /\ ~lastCast'.raised
          /\ lastCast'.sent = websocket_connections \ lastCast'.failing
          /\ websocket_connections' = websocket_connections \ lastCast'.failing]_vars

\* ------------------------------------------------- C31
\* InSnapshotWrite(c): context c is inside _get_proper_diff, between its read
\* of the watcher's snapshot entry and its write of it.
InSnapshotWrite(c) == ctx[c].pc = "extract"

\* Seeds(r): the step is start_watching of r running initialize_snapshots on
\* the API thread.
Seeds(r) ==
    /\ nApi' # nApi
    /\ lastCall'.op = "start" /\ lastCall'.repo = r /\ ~lastCall'.early

\* C31: per watcher, no two execution contexts are writing the snapshot at
\* once: never two dispatch threads of one watcher inside the snapshot
\* update together, and never a dispatch thread inside it while start() seeds
\* the snapshot, a start after a stop whose join timed out included.
C31_OneSnapshotWriter ==
    [][\A r \in Repos :
          /\ ~(InSnapshotWrite(<<r, "old">>)' /\ InSnapshotWrite(<<r, "cur">>)')
          /\ Seeds(r) => ~InSnapshotWrite(<<r, "old">>)]_vars

\* ------------------------------------------------- C32
\* A dispatch thread t compares contents for a Created or Modified event whose
\* file exists and was read.
ComparesContents(t) ==
    /\ Processes(t)
    /\ ctx[t].kind \in {"created", "modified"}
    /\ ctx[t].path \in DOMAIN disk[t[1]]
    /\ ~ctx'[t].read_error

\* C32: on a Created or Modified event the previous side of the diff is the
\* snapshot entry of the path whenever there is one, an entry holding the
\* empty content included; without an entry it is the last-committed content
\* when the kind is not Created, and the empty content otherwise.
C32_EntryBeforeHistory ==
    [][\A t \in Threads :
          ComparesContents(t) =>
             LET snap == file_snapshots[t[1]]
                 p    == ctx[t].path
             IN ctx'[t].prev =
                  IF p \in DOMAIN snap THEN snap[p]
                  ELSE IF ctx[t].kind # "created" /\ p \in DOMAIN head[t[1]]
                         THEN GitShowHead(head[t[1]], p)
                         ELSE EmptyStr]_vars

\* ------------------------------------------------- C33
\* C33: a Created or Modified event whose file exists but cannot be read takes
\* the current content as empty: its diff is diff(previous, empty) and the
\* snapshot entry of the path becomes the empty content; every Created or
\* Modified event whose file exists leaves the entry equal to the content it
\* used as current.
C33_UnreadableIsEmpty ==
    [][\A t \in Threads :
          (/\ Processes(t)
           /\ ctx[t].kind \in {"created", "modified"}
           /\ ctx[t].path \in DOMAIN disk[t[1]]) =>
             LET p == ctx[t].path
                 e == Entry(file_snapshots'[t[1]], p)
             IN /\ e = <<ctx'[t].cur>>
                /\ ctx'[t].read_error =>
                     /\ ctx'[t].cur = EmptyStr
                     /\ ctx'[t].git_diff \in
                          {DiffUnlessEqual(p, ctx'[t].prev, EmptyStr),
                           CreateDiff(p, ctx'[t].prev, EmptyStr)}]_vars

\* ------------------------------------------------- C34
\* The lines of the diff of two contents that carry the mark c ("+" for an
\* inserted line, "-" for a removed one); the header lines are not among them.
Marked(old_content, new_content, c) ==
    LET body == DiffBody(SplitLines(old_content), SplitLines(new_content))
    IN Cardinality({i \in 1..Len(body) : body[i][1] = c})

\* C34: for every pair of contents compared, lines added is the number of
\* inserted lines of the diff and lines removed the number of removed lines,
\* whatever the text of those lines begins with.
C34_CountsEveryContentLine ==
    \A t \in Threads :
       (ctx[t].pc = "callback" /\ ctx[t].prev # <<>>) =>
          /\ ctx[t].lines_added = Marked(ctx[t].prev, ctx[t].cur, "+")
          /\ ctx[t].lines_removed = Marked(ctx[t].prev, ctx[t].cur, "-")

\* ------------------------------------------------- C35
\* C35: when start() of a watcher that was not running succeeds, on a first
\* start and on a start after a stop, the snapshot store holds exactly one
\* entry per non-ignored file of the tree, with the file's content: no entry
\* is left of a file deleted while the watcher was stopped.
C35_StartSeedsExactlyTheTree ==
    [][\A r \in Repos :
          (Seeds(r) /\ lastCall'.ret) =>
             file_snapshots'[r] = [q \in Seeded(r, disk[r]) |-> disk[r][q]]]_vars

RECURSIVE RunLength(_)
RunLength(body) ==
    IF body = <<>> \/ body[1][1] = " " THEN 0 ELSE 1 + RunLength(Tail(body))

\* The block of one run: removal-only, addition-only, or modified with all
\* removals before all additions.
BlockOf(run) ==
    LET removals  == Unmarked(run, "-")
        additions == Unmarked(run, "+")
    IN (IF removals # <<>> /\ additions # <<>>
          THEN <<S_Modified, <<>>, S_Removed>> \o Bulleted("-", removals)
               \o << <<>>, S_Added>> \o Bulleted("+", additions)
        ELSE IF removals # <<>> THEN <<S_Deleted>> \o Bulleted("-", removals)
        ELSE <<S_Added>> \o Bulleted("+", additions))
       \o << <<>> >>

\* The rendering of a hunk's body: one block per maximal run, and the context
\* lines without their prefix.
RECURSIVE Rendering(_)
Rendering(body) ==
    IF body = <<>> THEN <<>>
    ELSE IF body[1][1] = " "
      THEN <<S_Indent \o Tail(body[1])>> \o Rendering(Tail(body))
    ELSE LET n == RunLength(body)
         IN BlockOf(SubSeq(body, 1, n)) \o Rendering(SubSeq(body, n + 1, Len(body)))

\* C37: the formatted rendering of a record is a text, whatever the diff; for
\* the diff of two different contents it is the hunk line followed by one
\* block per maximal run of removal/addition lines (removal-only, addition-only
\* or modified) and the context lines without their prefix, so that every
\* removed and every added line of the diff is in it.
C37_RenderingShowsEveryChange ==
    \A t \in Threads :
       ctx[t].pc = "callback" =>
          LET change_data == ctx[t].change_data
              body == DiffBody(SplitLines(ctx[t].prev), SplitLines(ctx[t].cur))
          IN /\ change_data.formatted_changes # <<>>
             /\ (ctx[t].prev # <<>> /\ ctx[t].prev # ctx[t].cur) =>
                   change_data.formatted_changes =
                      << <<>>, <<Pin, " ">> \o change_data.git_diff[5] >>
                          \o Rendering(body)

\* ------------------------------------------------- C38
\* Context c holds the payload it prepared for its row.
HoldsPayload(c) == ctx[c].pc \in {"post", "sleep", "mark"}

\* C38: the payload of a record is the same at every delivery: a delivery of
\* a Pending record by process_unsent_changes carries the previous and
\* current content that the record's delivery on the event path carries,
\* whatever happened to the file in between.
C38_SamePayloadAtEveryDelivery ==
    \A t \in Threads :
       (HoldsPayload(t) /\ HoldsPayload(API) /\ ctx[t].cid = ctx[API].cid) =>
          ctx[t].payload = ctx[API].payload

\* ------------------------------------------------- C39
\* Context c has issued a POST in the delivery it is in.
HasPosted(c) ==
    ctx[c].pc \in {"post", "sleep", "mark", "ret"} /\ ctx[c].resps # <<>>

\* C39: when a batch call delivers a Pending record while the event path is
\* delivering the same record, at most one of the two deliveries issues POSTs
\* for it.
C39_OnePosterPerRecord ==
    \A t \in Threads :
       ~(HasPosted(t) /\ HasPosted(API) /\ ctx[t].cid = ctx[API].cid)

\* ------------------------------------------------- C40
\* C40: a Created or Modified event whose file is gone when it is processed
\* is handled as a deletion of the snapshot: the diff is diff(entry, empty),
\* or the "no previous snapshot" text when the path has no entry, and no
\* entry is left; the record keeps the kind of the raw event, as every
\* record does.
C40_MissingFileKeepsKind ==
    [][\A t \in Threads :
        /\ (ctx[t].pc = "idle" /\ ctx'[t].pc = "extract") =>
              ctx'[t].kind = Head(queue[t[1]]).kind
        /\ (ctx[t].pc = "commit" /\ Len(changes') = Len(changes) + 1) =>
              changes'[Len(changes')].change_type = ctx[t].kind
        /\ Processes(t) =>
             LET snap == file_snapshots[t[1]]
                 p    == ctx[t].path
                 change_data == ctx'[t].change_data
             IN /\ change_data.change_type = ctx[t].kind
                /\ ctx'[t].kind = ctx[t].kind
                /\ (ctx[t].kind \in {"created", "modified"}
                       /\ p \notin DOMAIN disk[t[1]]) =>
                      /\ p \notin DOMAIN file_snapshots'[t[1]]
                      /\ change_data.git_diff =
                           IF p \in DOMAIN snap
                             THEN CreateDiff(p, snap[p], EmptyStr)
                             ELSE S_FileDeleted]_vars

C40_Witness ==
    \E t \in Threads :
        /\ ctx[t].pc = "commit"
        /\ ctx[t].kind = "modified"
        /\ ctx[t].change_data.change_type = "modified"
        /\ ctx[t].path \notin DOMAIN disk[t[1]]
        /\ ctx[t].path \notin DOMAIN file_snapshots[t[1]]
        /\ ctx[t].git_diff = CreateDiff(APy, Hello, EmptyStr)

====
